---- MODULE Spec2Model ----
(***************************************************************************)
(* Ring-buffer primitives of the starter kit: the circular index (cidx.h), *)
(* the virtual-memory circular byte buffer (cbuf.h) and the threads of     *)
(* cidx_test.c that exercise the circular index without a lock.            *)
(*                                                                         *)
(* size_t is modelled as an unsigned word of WordBits bits; every          *)
(* arithmetic result the code stores in a size_t is reduced modulo Word.   *)
(***************************************************************************)
EXTENDS Integers, Naturals, Sequences, FiniteSets, TLC

\* ------------------------------------------------------------------------
\* Bounds of the model.
\* ------------------------------------------------------------------------

\* Width of size_t in bits.
WordBits == 6

\* Largest capacity (DATAMAX of the test, `max` of cidx_init) explored.
MaxCap == 4

\* Number of elements each test thread writes / reads (ITERATIONS).
ITERATIONS == 6

\* The statistics counters `full` and `empty` of the test saturate here.
MaxStat == 1

\* Largest chunk the threads of cbuf_test.c write (the u8 limit, 255u).
MaxChunk == 3

\* Number of distinct byte values the stream of SpecCbufIO cycles through.
ByteVals == 3

\* Model values of the LineLog dimensions of program.h (512, 1024 * 1024
\* and 10000 in the source): the longest line segment, the size of the byte
\* store and the number of line descriptors.
CONS_MAX_LINE == 3
CONS_BUF_DIM == 8
CONS_LINELIST_DIM == 4

\* Longest text, terminator not counted, that SpecAppend tries in full.
MaxText == 3

\* Number of threads that call out_cons and number of calls they make in
\* all in SpecLock.
NProd == 2
MaxCalls == 3

\* Number of calls of out_cons made one after the other in SpecLog.
MaxAppends == 4

\* log2 of the system page size used by cbuf_create.
PageBits == 3

\* Largest minsize handed to cbuf_create.
MaxMinSize == 9

Word == 2 ^ WordBits

VARIABLES
    ci,       \* cidx_s: [wr, rd, fre, max]
    g_data,   \* the element array managed by ci (g_data[DATAMAX] of the test)
    wthr,     \* writer thread wr(): program counter and locals
    rthr,     \* reader thread rd(): program counter and locals
    hist,     \* history: elements committed and elements read, in order
    cb,       \* cbuf_s: [wr, rd, fre, align, amask, max]
    call,     \* the last API call made: [op, arg, ret, pre]
    buf,      \* the bytes behind cb->buf, by physical offset
    cons,     \* pd->cons: the console log (byte store, line list, rbam, mutex)
    prod,     \* the threads calling out_cons: program counter and locals
    rb        \* xyz_rbam: [dim, rd, wr, next, used, free]

vars == <<ci, g_data, wthr, rthr, hist, cb, call, buf, cons, prod, rb>>

\* ------------------------------------------------------------------------
\* Unsigned word arithmetic.
\* ------------------------------------------------------------------------

WAdd(a, b) == (a + b) % Word
WSub(a, b) == (a - b + Word) % Word

RECURSIVE BitAndN(_, _, _)
\* Bitwise AND of the low k bits of a and b.
BitAndN(a, b, k) ==
    IF k = 0 THEN 0
    ELSE ((a % 2) * (b % 2)) + 2 * BitAndN(a \div 2, b \div 2, k - 1)

BitAnd(a, b) == BitAndN(a, b, WordBits)
BitNot(a) == (Word - 1) - a

\* ------------------------------------------------------------------------
\* cidx.h: circular index for a single reader and a single writer.
\* ------------------------------------------------------------------------

\* The structure before cidx_init has run on it.
NoCidx == [wr |-> 0, rd |-> 0, fre |-> 0, max |-> 0]

\* cidx_init with the capacity check off by one.
cidx_init_mut(c, max) ==
    IF max < 1 THEN [ret |-> FALSE, ci |-> c]
    ELSE [ret |-> TRUE, ci |-> [wr |-> 0, rd |-> 0, fre |-> max, max |-> max]]

cidx_init(c, max) ==
    IF max < 2 THEN [ret |-> FALSE, ci |-> c]
    ELSE [ret |-> TRUE, ci |-> [wr |-> 0, rd |-> 0, fre |-> max, max |-> max]]

\* cidx_isfull with the comparison of cidx_isempty.
cidx_isfull_mut(c) == c.fre = c.max

cidx_isfull(c) == 0 = c.fre

\* cidx_isempty with the comparison of cidx_isfull.
cidx_isempty_mut(c) == 0 = c.fre

cidx_isempty(c) == c.fre = c.max
cidx_used(c) == WSub(c.max, c.fre)
cidx_free(c) == c.fre
cidx_next(c, idx) == WAdd(idx, 1) % c.max
cidx_prev(c, idx) == IF 0 = idx THEN c.max - 1 ELSE idx - 1

\* The first store of cidx_commit taking the free count instead of
\* advancing the index.
cidx_commit_wr_mut(c) == [c EXCEPT !.fre = WSub(c.fre, 1)]

\* The two stores of cidx_commit, in program order.
cidx_commit_wr(c) == [c EXCEPT !.wr = WAdd(c.wr, 1) % c.max]
cidx_commit_fre(c) == [c EXCEPT !.fre = WSub(c.fre, 1)]

\* The first store of cidx_consume left out.
cidx_consume_rd_mut(c) == c

\* The second store of cidx_consume subtracting as cidx_commit does.
cidx_consume_fre_mut(c) == [c EXCEPT !.fre = WSub(c.fre, 1)]

\* The two stores of cidx_consume, in program order.
cidx_consume_rd(c) == [c EXCEPT !.rd = WAdd(c.rd, 1) % c.max]
cidx_consume_fre(c) == [c EXCEPT !.fre = WAdd(c.fre, 1)]

\* cidx_commit without its full check.
cidx_commit_mut(c) ==
    [ret |-> TRUE, ci |-> cidx_commit_fre(cidx_commit_wr(c))]

\* cidx_commit as one uninterrupted call.
cidx_commit(c) ==
    IF 0 = c.fre THEN [ret |-> FALSE, ci |-> c]
    ELSE [ret |-> TRUE, ci |-> cidx_commit_fre(cidx_commit_wr(c))]

\* cidx_consume without its empty check.
cidx_consume_mut(c) ==
    [ret |-> TRUE, ci |-> cidx_consume_fre(cidx_consume_rd(c))]

\* cidx_consume as one uninterrupted call.
cidx_consume(c) ==
    IF c.max = c.fre THEN [ret |-> FALSE, ci |-> c]
    ELSE [ret |-> TRUE, ci |-> cidx_consume_fre(cidx_consume_rd(c))]

\* The free count read and left as it is.
cidx_drain_xchg_mut(c) == [drained |-> WSub(c.max, c.fre), ci |-> c]

\* The atomic exchange of cidx_drain and the value it derives from it.
cidx_drain_xchg(c) ==
    [drained |-> WSub(c.max, c.fre), ci |-> [c EXCEPT !.fre = c.max]]

\* The read index update of cidx_drain without the roll-over.
cidx_drain_rd_mut(c, drained) == [c EXCEPT !.rd = WAdd(c.rd, drained)]

\* The read index update of cidx_drain.
cidx_drain_rd(c, drained) == [c EXCEPT !.rd = WAdd(c.rd, drained) % c.max]

\* cidx_drain as one uninterrupted call.
cidx_drain(c) ==
    LET x == cidx_drain_xchg(c)
    IN  [ret |-> x.drained, ci |-> cidx_drain_rd(x.ci, x.drained)]

\* ------------------------------------------------------------------------
\* Values of the variables a specification does not use.
\* ------------------------------------------------------------------------

NoThread == [pc |-> "idle"]
NoHist == [committed |-> <<>>, consumed |-> <<>>]
NoCbuf == [wr |-> 0, rd |-> 0, fre |-> 0, align |-> 0, amask |-> 0, max |-> 0]
NoCall == [op |-> "none", arg |-> 0, ret |-> 0, pre |-> NoCidx]
NoData == [i \in {} |-> 0]
NoCons == [bufdim |-> 0]
NoProd == [p \in {} |-> NoThread]
NoRbam == [dim |-> 0, rd |-> 0, wr |-> 0, next |-> 0, used |-> 0, free |-> 0]

\* ------------------------------------------------------------------------
\* SpecSeq: the cidx API called from one thread (the "additional tests" of
\* main() in cidx_test.c, generalised to every order of calls).
\* ------------------------------------------------------------------------

InitSeq ==
    /\ \E m \in 2..MaxCap : ci = cidx_init(NoCidx, m).ci
    /\ g_data = NoData
    /\ wthr = NoThread
    /\ rthr = NoThread
    /\ hist = NoHist
    /\ cb = NoCbuf
    /\ call = NoCall
    /\ buf = NoData
    /\ cons = NoCons
    /\ prod = NoProd
    /\ rb = NoRbam

SeqInit ==
    \E m \in 0..MaxCap :
        LET r == cidx_init(ci, m)
        IN  /\ ci' = r.ci
            /\ call' = [op |-> "cidx_init", arg |-> m, ret |-> r.ret, pre |-> ci]
            /\ UNCHANGED <<g_data, wthr, rthr, hist, cb, buf, cons, prod, rb>>

SeqCommit ==
    LET r == cidx_commit(ci)
    IN  /\ ci' = r.ci
        /\ call' = [op |-> "cidx_commit", arg |-> 0, ret |-> r.ret, pre |-> ci]
        /\ UNCHANGED <<g_data, wthr, rthr, hist, cb, buf, cons, prod, rb>>

SeqConsume ==
    LET r == cidx_consume(ci)
    IN  /\ ci' = r.ci
        /\ call' = [op |-> "cidx_consume", arg |-> 0, ret |-> r.ret, pre |-> ci]
        /\ UNCHANGED <<g_data, wthr, rthr, hist, cb, buf, cons, prod, rb>>

SeqDrain ==
    LET r == cidx_drain(ci)
    IN  /\ ci' = r.ci
        /\ call' = [op |-> "cidx_drain", arg |-> 0, ret |-> r.ret, pre |-> ci]
        /\ UNCHANGED <<g_data, wthr, rthr, hist, cb, buf, cons, prod, rb>>

NextSeq == SeqInit \/ SeqCommit \/ SeqConsume \/ SeqDrain

SpecSeq == InitSeq /\ [][NextSeq]_vars

\* C4: cidx_commit on a full index returns false and changes nothing; on an
\* index that is not full it returns true, advances wr by one modulo the
\* capacity, takes exactly one from the free count and leaves rd alone.
C4_CommitContract ==
    call.op = "cidx_commit" =>
        IF call.pre.fre = 0
        THEN /\ call.ret = FALSE
             /\ ci = call.pre
        ELSE /\ call.ret = TRUE
             /\ ci.wr = (call.pre.wr + 1) % call.pre.max
             /\ ci.fre = call.pre.fre - 1
             /\ ci.rd = call.pre.rd
             /\ ci.max = call.pre.max

\* A commit refused because the index was full.
C4_Witness ==
    /\ call.op = "cidx_commit"
    /\ call.pre.fre = 0
    /\ call.ret = FALSE

\* C5: cidx_consume on an empty index returns false and changes nothing; on
\* an index that is not empty it returns true, advances rd by one modulo the
\* capacity, adds exactly one to the free count and leaves wr alone.
C5_ConsumeContract ==
    call.op = "cidx_consume" =>
        IF call.pre.fre = call.pre.max
        THEN /\ call.ret = FALSE
             /\ ci = call.pre
        ELSE /\ call.ret = TRUE
             /\ ci.rd = (call.pre.rd + 1) % call.pre.max
             /\ ci.fre = call.pre.fre + 1
             /\ ci.wr = call.pre.wr
             /\ ci.max = call.pre.max

\* A consume refused because the index was empty, after the cursors moved.
C5_Witness ==
    /\ call.op = "cidx_consume"
    /\ call.pre.fre = call.pre.max
    /\ call.pre.rd # 0
    /\ call.ret = FALSE

\* C7: cidx_init with a capacity below 2 returns false and leaves the
\* structure as it was; with a capacity of 2 or more it returns true and
\* leaves rd = wr = 0, the free count equal to the capacity, the index empty
\* and not full.
C7_InitContract ==
    call.op = "cidx_init" =>
        IF call.arg < 2
        THEN /\ call.ret = FALSE
             /\ ci = call.pre
        ELSE /\ call.ret = TRUE
             /\ ci.rd = 0
             /\ ci.wr = 0
             /\ ci.fre = call.arg
             /\ ci.max = call.arg
             /\ cidx_isempty(ci)
             /\ ~cidx_isfull(ci)

\* cidx_init refused on a structure that was in use.
C7_Witness ==
    /\ call.op = "cidx_init"
    /\ call.arg = 1
    /\ call.ret = FALSE
    /\ call.pre.wr # 0
    /\ call.pre.fre # call.pre.max

\* C8: cidx_drain returns the number of used elements at the call and leaves
\* the index empty, the free count equal to the capacity, rd equal to wr and
\* wr where it was.
C8_DrainContract ==
    call.op = "cidx_drain" =>
        /\ call.ret = call.pre.max - call.pre.fre
        /\ cidx_isempty(ci)
        /\ ci.fre = ci.max
        /\ ci.rd = ci.wr
        /\ ci.wr = call.pre.wr
        /\ ci.max = call.pre.max

\* A drain of two or more elements that rolls the read index over.
C8_Witness ==
    /\ call.op = "cidx_drain"
    /\ call.ret >= 2
    /\ ci.rd < call.pre.rd

\* ------------------------------------------------------------------------
\* Spec: the two threads of cidx_test.c, wr() and rd(), running on one cidx
\* with no lock.  Every step holds at most one access to memory the other
\* thread can touch (the atomic free count or an element of the array); the
\* atomics are sequentially consistent (atomic_load, atomic_fetch_add and
\* atomic_fetch_sub without an explicit order).  freecnt, the deliberately
\* unprotected counter of the test, takes no part in the index and is left
\* out.  The timed waits of the full and empty branches always return.
\* ------------------------------------------------------------------------

Min(a, b) == IF a < b THEN a ELSE b

InitWriter ==
    [pc |-> "w_isfull", wcnt |-> 0, n |-> 0, tmp |-> 0,
     signaled |-> FALSE, full |-> 0]

InitReader ==
    [pc |-> "r_isempty", rcnt |-> 0, cnt |-> 0, series |-> 1, rderr |-> 0,
     n |-> 0, signaled |-> FALSE, empty |-> 0, drained |-> 0]

Init ==
    /\ \E m \in 2..MaxCap :
          /\ ci = cidx_init(NoCidx, m).ci
          /\ g_data = [i \in 0..(m - 1) |-> 0]
    /\ wthr = InitWriter
    /\ rthr = InitReader
    /\ hist = NoHist
    /\ cb = NoCbuf
    /\ call = NoCall
    /\ buf = NoData
    /\ cons = NoCons
    /\ prod = NoProd
    /\ rb = NoRbam

\* wr(): while ( ITERATIONS > wcnt ) if ( false == cidx_isfull(ci) ) ...
\* and n = cidx_we(ci) on the branch taken when the index is not full.
WIsFull ==
    /\ wthr.pc = "w_isfull"
    /\ wthr' = IF ~(ITERATIONS > wthr.wcnt) THEN [wthr EXCEPT !.pc = "done"]
               ELSE IF cidx_isfull(ci) THEN [wthr EXCEPT !.pc = "w_full"]
               ELSE [wthr EXCEPT !.pc = "w_load", !.n = ci.wr]
    /\ UNCHANGED <<ci, g_data, rthr, hist, cb, call, buf, cons, prod, rb>>

\* wr(): the else branch, full++ and the timed wait.
WFull ==
    /\ wthr.pc = "w_full"
    /\ wthr' = [wthr EXCEPT !.pc = "w_isfull", !.signaled = FALSE,
                            !.full = Min(wthr.full + 1, MaxStat)]
    /\ UNCHANGED <<ci, g_data, rthr, hist, cb, call, buf, cons, prod, rb>>

\* wr(): the load of (*n)++.
WLoad ==
    /\ wthr.pc = "w_load"
    /\ wthr' = [wthr EXCEPT !.pc = "w_store", !.tmp = g_data[wthr.n]]
    /\ UNCHANGED <<ci, g_data, rthr, hist, cb, call, buf, cons, prod, rb>>

\* wr(): the store of (*n)++.
WStore ==
    /\ wthr.pc = "w_store"
    /\ g_data' = [g_data EXCEPT ![wthr.n] = wthr.tmp + 1]
    /\ wthr' = [wthr EXCEPT !.pc = "w_commit"]
    /\ UNCHANGED <<ci, rthr, hist, cb, call, buf, cons, prod, rb>>

\* cidx_commit: if ( 0 == atomic_load(&ci->fre) ) return false;
WCommit ==
    /\ wthr.pc = "w_commit"
    /\ wthr' = [wthr EXCEPT !.pc = IF 0 = ci.fre THEN "w_after"
                                   ELSE "w_commit_wr"]
    /\ UNCHANGED <<ci, g_data, rthr, hist, cb, call, buf, cons, prod, rb>>

\* cidx_commit: the first store.
WCommitWr ==
    /\ wthr.pc = "w_commit_wr"
    /\ ci' = cidx_commit_wr(ci)
    /\ wthr' = [wthr EXCEPT !.pc = "w_commit_fre"]
    /\ UNCHANGED <<g_data, rthr, hist, cb, call, buf, cons, prod, rb>>

\* cidx_commit: the second store; the element is committed from here on.
WCommitFre ==
    /\ wthr.pc = "w_commit_fre"
    /\ ci' = cidx_commit_fre(ci)
    /\ hist' = [hist EXCEPT !.committed =
                    Append(@, <<wthr.n, g_data[wthr.n]>>)]
    /\ wthr' = [wthr EXCEPT !.pc = "w_after"]
    /\ UNCHANGED <<g_data, rthr, cb, call, buf, cons, prod, rb>>

\* wr(): wcnt++ and the half-way signal, which reads cidx_free(ci).
WAfter ==
    /\ wthr.pc = "w_after"
    /\ wthr' = [wthr EXCEPT
                  !.pc = "w_isfull",
                  !.wcnt = wthr.wcnt + 1,
                  !.signaled = IF FALSE = wthr.signaled
                                  /\ cidx_free(ci) < (ci.max \div 2)
                               THEN TRUE ELSE wthr.signaled]
    /\ UNCHANGED <<ci, g_data, rthr, hist, cb, call, buf, cons, prod, rb>>

Writer ==
    \/ WIsFull \/ WFull \/ WLoad \/ WStore
    \/ WCommit \/ WCommitWr \/ WCommitFre \/ WAfter

\* rd(): while ( ITERATIONS > rcnt ) if ( false == cidx_isempty(ci) ) ...
\* and n = cidx_re(ci) on the branch taken when the index is not empty.
RIsEmpty ==
    /\ rthr.pc = "r_isempty"
    /\ rthr' = IF ~(ITERATIONS > rthr.rcnt) THEN [rthr EXCEPT !.pc = "done"]
               ELSE IF cidx_isempty(ci) THEN [rthr EXCEPT !.pc = "r_empty"]
               ELSE [rthr EXCEPT !.pc = "r_read", !.n = ci.rd]
    /\ UNCHANGED <<ci, g_data, wthr, hist, cb, call, buf, cons, prod, rb>>

\* rd(): the else branch, empty++ and the timed wait.
REmpty ==
    /\ rthr.pc = "r_empty"
    /\ rthr' = [rthr EXCEPT !.pc = "r_isempty", !.signaled = FALSE,
                            !.empty = Min(rthr.empty + 1, MaxStat)]
    /\ UNCHANGED <<ci, g_data, wthr, hist, cb, call, buf, cons, prod, rb>>

\* rd(): if ( series != *n ) rderr++;
RRead ==
    /\ rthr.pc = "r_read"
    /\ rthr' = [rthr EXCEPT
                  !.pc = "r_consume",
                  !.rderr = IF rthr.series # g_data[rthr.n]
                            THEN rthr.rderr + 1 ELSE rthr.rderr]
    /\ hist' = [hist EXCEPT !.consumed =
                    Append(@, <<rthr.n, g_data[rthr.n]>>)]
    /\ UNCHANGED <<ci, g_data, wthr, cb, call, buf, cons, prod, rb>>

\* cidx_consume: if ( ci->max == atomic_load(&ci->fre) ) return false;
RConsume ==
    /\ rthr.pc = "r_consume"
    /\ rthr' = [rthr EXCEPT !.pc = IF ci.max = ci.fre THEN "r_after"
                                   ELSE "r_consume_rd"]
    /\ UNCHANGED <<ci, g_data, wthr, hist, cb, call, buf, cons, prod, rb>>

\* cidx_consume: the first store.
RConsumeRd ==
    /\ rthr.pc = "r_consume_rd"
    /\ ci' = cidx_consume_rd(ci)
    /\ rthr' = [rthr EXCEPT !.pc = "r_consume_fre"]
    /\ UNCHANGED <<g_data, wthr, hist, cb, call, buf, cons, prod, rb>>

\* cidx_consume: the second store; the element is free from here on.
RConsumeFre ==
    /\ rthr.pc = "r_consume_fre"
    /\ ci' = cidx_consume_fre(ci)
    /\ rthr' = [rthr EXCEPT !.pc = "r_after"]
    /\ UNCHANGED <<g_data, wthr, hist, cb, call, buf, cons, prod, rb>>

\* rd(): cnt and series, rcnt++ and the half-way signal.
RAfter ==
    /\ rthr.pc = "r_after"
    /\ rthr' = [rthr EXCEPT
                  !.pc = "r_isempty",
                  !.cnt = IF ci.max = rthr.cnt + 1 THEN 0 ELSE rthr.cnt + 1,
                  !.series = IF ci.max = rthr.cnt + 1
                             THEN rthr.series + 1 ELSE rthr.series,
                  !.rcnt = rthr.rcnt + 1,
                  !.signaled = IF FALSE = rthr.signaled
                                  /\ cidx_free(ci) > (ci.max \div 2)
                               THEN TRUE ELSE rthr.signaled]
    /\ UNCHANGED <<ci, g_data, wthr, hist, cb, call, buf, cons, prod, rb>>

Reader ==
    \/ RIsEmpty \/ REmpty \/ RRead
    \/ RConsume \/ RConsumeRd \/ RConsumeFre \/ RAfter

Next == Writer \/ Reader

Spec == Init /\ [][Next]_vars

\* Both loops of the test poll with a timed wait, so a thread that is not
\* finished always takes its next step eventually.
SpecLive == Spec /\ WF_vars(Writer) /\ WF_vars(Reader)

\* The slot a thread holds: the writer from cidx_we until its commit has
\* taken the free count, the reader from cidx_re until its consume has given
\* the free count back.
WriterHolds(slot) ==
    /\ wthr.pc \in {"w_load", "w_store", "w_commit", "w_commit_wr",
                    "w_commit_fre"}
    /\ wthr.n = slot

ReaderHolds(slot) ==
    /\ rthr.pc \in {"r_read", "r_consume", "r_consume_rd", "r_consume_fre"}
    /\ rthr.n = slot

\* C1: in every interleaving the writer and the reader never hold the same
\* slot: the reader never reads a slot that is being written or is not yet
\* committed, and the writer never writes a slot that is not yet consumed.
C1_NoSharedSlot ==
    \A slot \in DOMAIN g_data : ~(WriterHolds(slot) /\ ReaderHolds(slot))

\* The writer stores into a slot it has used before while the reader is
\* about to read another slot.
C1_Witness ==
    /\ wthr.pc = "w_store"
    /\ rthr.pc = "r_read"
    /\ wthr.n # rthr.n
    /\ wthr.wcnt >= ci.max

\* The k-th element the writer commits (k from 1): its slot and its value.
Element(k) == <<(k - 1) % ci.max, ((k - 1) \div ci.max) + 1>>

\* C2: the elements the reader reads are exactly the elements the writer
\* committed, in commit order, none lost, duplicated or read twice, and the
\* read-error counter of the test stays 0.
C2_ReadsAreCommitsInOrder ==
    /\ rthr.rderr = 0
    /\ Len(hist.consumed) <= Len(hist.committed)
    /\ \A k \in 1..Len(hist.committed) : hist.committed[k] = Element(k)
    /\ \A k \in 1..Len(hist.consumed) : hist.consumed[k] = hist.committed[k]
    /\ (wthr.pc = "done" /\ rthr.pc = "done") =>
          /\ Len(hist.consumed) = ITERATIONS
          /\ hist.consumed = hist.committed

\* Both threads have finished and every element went through the index.
C2_Witness ==
    /\ wthr.pc = "done"
    /\ rthr.pc = "done"
    /\ Len(hist.consumed) = ITERATIONS
    /\ ITERATIONS > ci.max

\* 1 when the thread stands between the two stores of its call, else 0.
WriterPending == IF wthr.pc = "w_commit_fre" THEN 1 ELSE 0
ReaderPending == IF rthr.pc = "r_consume_fre" THEN 1 ELSE 0

\* C6: the cursor update precedes the counter update.  The cursors and the
\* counter agree except that a cursor is one ahead of the counter while its
\* thread stands between the two stores; the counter is never ahead.
C6_IndexBeforeCounter ==
    ci.wr = (ci.rd + cidx_used(ci) + WriterPending
               + (ci.max - ReaderPending)) % ci.max

\* Both threads stand between their index store and their counter store.
C6_Witness ==
    /\ wthr.pc = "w_commit_fre"
    /\ rthr.pc = "r_consume_fre"

RDrainXchg ==
    /\ rthr.pc = "r_isempty"
    /\ ITERATIONS > rthr.rcnt
    /\ LET x == cidx_drain_xchg(ci)
       IN  /\ ci' = x.ci
           /\ rthr' = [rthr EXCEPT !.pc = "r_drain_rd", !.drained = x.drained]
    /\ UNCHANGED <<g_data, wthr, hist, cb, call, buf, cons, prod, rb>>

\* cidx_drain: the store of the read index.
RDrainRd ==
    /\ rthr.pc = "r_drain_rd"
    /\ ci' = cidx_drain_rd(ci, rthr.drained)
    /\ rthr' = [rthr EXCEPT
                  !.pc = "r_isempty",
                  !.rcnt = rthr.rcnt + rthr.drained,
                  !.cnt = (rthr.cnt + rthr.drained) % ci.max,
                  !.series = rthr.series
                               + ((rthr.cnt + rthr.drained) \div ci.max)]
    /\ UNCHANGED <<g_data, wthr, hist, cb, call, buf, cons, prod, rb>>

NextDrain == Writer \/ Reader \/ RDrainXchg \/ RDrainRd

SpecDrain == Init /\ [][NextDrain]_vars

\* C3: in every interleaving of commits, consumes and drains the free count
\* stays within 0..capacity and cidx_free + cidx_used equals the capacity.
C3_FreeCountBounds ==
    /\ 0 <= ci.fre
    /\ ci.fre <= ci.max
    /\ cidx_free(ci) + cidx_used(ci) = ci.max

\* The drain has exchanged the counter while the writer stands before the
\* decrement of a commit.
C3_Witness ==
    /\ rthr.pc = "r_drain_rd"
    /\ rthr.drained > 0
    /\ wthr.pc = "w_commit_fre"
    /\ ci.fre = ci.max

\* ------------------------------------------------------------------------
\* cbuf.h: circular byte buffer on a doubled virtual-memory mapping.
\* ------------------------------------------------------------------------

\* The page size sysconf(_SC_PAGESIZE) reports, a power of two.
PageSize == 2 ^ PageBits

\* The values of the align parameter tried; cbuf_create keeps 2, 4 and 8.
AlignArgs == {0, 1, 2, 3, 4, 8, 16}

\* The rounded size without the test of the most significant bit.
cbuf_bufsize_mut(minsize, pagesize) == WAdd(BitAnd(minsize, BitNot(pagesize - 1)), pagesize)

\* cbuf_create: the buffer size computed from minsize.
cbuf_bufsize(minsize, pagesize) ==
    LET masked == BitAnd(minsize, BitNot(pagesize - 1))
        rounded == IF masked < pagesize \/ 0 # (minsize % pagesize)
                   THEN WAdd(masked, pagesize) ELSE masked
    IN  IF 0 # (rounded \div (2 ^ (WordBits - 1)))
        THEN rounded \div 2 ELSE rounded

\* cbuf_create when every mapping call and the alias self-test succeed.
cbuf_create(minsize, align) ==
    LET bufsize == cbuf_bufsize(minsize, PageSize)
        keep == (2 = align \/ 4 = align \/ 8 = align)
    IN  [wr |-> 0, rd |-> 0, fre |-> bufsize,
         align |-> IF keep THEN align ELSE 0,
         amask |-> IF keep THEN align - 1 ELSE 0,
         max |-> bufsize]

cbuf_isfull(c) == 0 = c.fre

\* cbuf_isempty with the comparison of cbuf_isfull.
cbuf_isempty_mut(c) == 0 = c.fre

cbuf_isempty(c) == c.fre = c.max
cbuf_used(c) == WSub(c.max, c.fre)
cbuf_free(c) == c.fre

\* The byte count taken as it is given.
cbuf_align_mut(c, n) == n

\* cbuf_commit / cbuf_consume: n adjusted up to the alignment.
cbuf_align(c, n) ==
    IF 0 < c.align
    THEN LET aerr == BitAnd(n, c.amask)
             forced == BitAnd(n, BitNot(c.amask))
         IN  IF 0 # aerr THEN WAdd(forced, c.align) ELSE forced
    ELSE n

\* cbuf_commit: n adjusted to the alignment and clamped to the free count
\* the atomic load returns.
cbuf_commit_n(c, n) ==
    LET aligned == cbuf_align(c, n)
    IN  IF aligned > c.fre THEN c.fre ELSE aligned

\* The first store of cbuf_commit advancing the offset instead of taking
\* the free count.
cbuf_commit_fre_mut(c, n) == [c EXCEPT !.wr = WAdd(c.wr, n) % c.max]

\* The two stores of cbuf_commit, in program order.
cbuf_commit_fre(c, n) == [c EXCEPT !.fre = WSub(c.fre, n)]
cbuf_commit_wr(c, n) == [c EXCEPT !.wr = WAdd(c.wr, n) % c.max]

\* cbuf_commit as one uninterrupted call.
cbuf_commit(c, n) ==
    LET clamped == cbuf_commit_n(c, n)
    IN  [ret |-> clamped,
         cb |-> cbuf_commit_wr(cbuf_commit_fre(c, clamped), clamped)]

\* cbuf_consume: n adjusted to the alignment and clamped to the used count
\* derived from the atomic load.
cbuf_consume_n(c, n) ==
    LET aligned == cbuf_align(c, n)
        used == WSub(c.max, c.fre)
    IN  IF aligned > used THEN used ELSE aligned

\* The offset store of cbuf_consume without the modulo.
cbuf_consume_rd_mut(c, n) == [c EXCEPT !.rd = WAdd(c.rd, n)]

\* The two stores of cbuf_consume, in program order.
cbuf_consume_fre(c, n) == [c EXCEPT !.fre = WAdd(c.fre, n)]
cbuf_consume_rd(c, n) == [c EXCEPT !.rd = WAdd(c.rd, n) % c.max]

\* cbuf_consume as one uninterrupted call.
cbuf_consume(c, n) ==
    LET clamped == cbuf_consume_n(c, n)
    IN  [ret |-> clamped,
         cb |-> cbuf_consume_rd(cbuf_consume_fre(c, clamped), clamped)]

\* cbuf_drain that hands the free count back and leaves the read offset.
cbuf_drain_mut(c) == [ret |-> WSub(c.max, c.fre), cb |-> [c EXCEPT !.fre = c.max]]

\* cbuf_drain as one uninterrupted call.
cbuf_drain(c) ==
    LET drained == WSub(c.max, c.fre)
    IN  [ret |-> drained,
         cb |-> [c EXCEPT !.fre = c.max,
                          !.rd = WAdd(c.rd, drained) % c.max]]

\* ------------------------------------------------------------------------
\* SpecCbuf: the cbuf API called from one thread on a created buffer, with
\* every byte count of the word range.
\* ------------------------------------------------------------------------

InitCbuf ==
    /\ \E minsize \in 0..MaxMinSize, align \in AlignArgs :
          cb = cbuf_create(minsize, align)
    /\ ci = NoCidx
    /\ g_data = NoData
    /\ wthr = NoThread
    /\ rthr = NoThread
    /\ hist = NoHist
    /\ call = NoCall
    /\ buf = NoData
    /\ cons = NoCons
    /\ prod = NoProd
    /\ rb = NoRbam

CbCommit ==
    \E n \in 0..(Word - 1) :
        LET r == cbuf_commit(cb, n)
        IN  /\ cb' = r.cb
            /\ call' = [op |-> "cbuf_commit", arg |-> n, ret |-> r.ret,
                        pre |-> cb]
            /\ UNCHANGED <<ci, g_data, wthr, rthr, hist, buf, cons, prod, rb>>

CbConsume ==
    \E n \in 0..(Word - 1) :
        LET r == cbuf_consume(cb, n)
        IN  /\ cb' = r.cb
            /\ call' = [op |-> "cbuf_consume", arg |-> n, ret |-> r.ret,
                        pre |-> cb]
            /\ UNCHANGED <<ci, g_data, wthr, rthr, hist, buf, cons, prod, rb>>

CbDrain ==
    LET r == cbuf_drain(cb)
    IN  /\ cb' = r.cb
        /\ call' = [op |-> "cbuf_drain", arg |-> 0, ret |-> r.ret, pre |-> cb]
        /\ UNCHANGED <<ci, g_data, wthr, rthr, hist, buf, cons, prod, rb>>

NextCbuf == CbCommit \/ CbConsume \/ CbDrain

SpecCbuf == InitCbuf /\ [][NextCbuf]_vars

\* n rounded up to the next multiple of the alignment, as a number.
RoundUp(n, align) ==
    IF align = 0 THEN n ELSE ((n + align - 1) \div align) * align

\* C10: cbuf_commit(n), for every n of the word range and every alignment,
\* returns the smaller of n rounded up to the alignment and the free bytes at
\* the call, takes exactly that from the free count, advances the write
\* offset by it modulo the size and leaves the read offset alone.
C10_CommitContract ==
    call.op = "cbuf_commit" =>
        /\ call.ret = Min(RoundUp(call.arg, call.pre.align), call.pre.fre)
        /\ cb.fre = call.pre.fre - call.ret
        /\ cb.wr = (call.pre.wr + call.ret) % call.pre.max
        /\ cb.rd = call.pre.rd

\* C11: cbuf_consume(n), for every n of the word range and every alignment,
\* returns the smaller of n rounded up to the alignment and the used bytes at
\* the call, gives exactly that back to the free count, advances the read
\* offset by it modulo the size and leaves the write offset alone.
C11_ConsumeContract ==
    call.op = "cbuf_consume" =>
        /\ call.ret = Min(RoundUp(call.arg, call.pre.align),
                          call.pre.max - call.pre.fre)
        /\ cb.fre = call.pre.fre + call.ret
        /\ cb.rd = (call.pre.rd + call.ret) % call.pre.max
        /\ cb.wr = call.pre.wr

\* ------------------------------------------------------------------------
\* SpecCbufTest: the two threads of cbuf_test.c, wr() and rd(), running on
\* one cbuf with no lock.  The writer stores cnt bytes of value cnt and
\* commits them, the reader checks cnt bytes and consumes them, cnt going
\* 1, 2, ... MaxChunk, 1, ...  Every step holds at most one access to memory
\* the other thread can touch.  The mapping made by cbuf_create is modelled
\* by Phys: the virtual offsets v and v + max are the same byte.
\* ------------------------------------------------------------------------

\* The physical byte behind the virtual offset v of the doubled mapping.
Phys(c, v) == v % c.max

InitCbWriter ==
    [pc |-> "cw_free", wcnt |-> 0, full |-> 0, cnt |-> 1, wp |-> 0,
     idx |-> 0, n |-> 0, signaled |-> FALSE]

InitCbReader ==
    [pc |-> "cr_isempty", rcnt |-> 0, empty |-> 0, cnt |-> 1, rp |-> 0,
     idx |-> 0, n |-> 0, rderr |-> 0, signaled |-> FALSE]

InitCbufTest ==
    /\ \E align \in AlignArgs : cb = cbuf_create(0, align)
    /\ buf = [i \in 0..(cb.max - 1) |-> 0]
    /\ wthr = InitCbWriter
    /\ rthr = InitCbReader
    /\ hist = [committed |-> <<>>, consumed |-> <<>>, nc |-> 0, nr |-> 0]
    /\ ci = NoCidx
    /\ g_data = NoData
    /\ call = NoCall
    /\ cons = NoCons
    /\ prod = NoProd
    /\ rb = NoRbam

\* wr(): the loop test, if ( cbuf_free(cb) >= cnt ) and wp = cbuf_wb(cb).
CWFree ==
    /\ wthr.pc = "cw_free"
    /\ wthr' = IF ~(ITERATIONS > wthr.wcnt /\ ITERATIONS > wthr.full)
               THEN [wthr EXCEPT !.pc = "done"]
               ELSE IF cbuf_free(cb) >= wthr.cnt
               THEN [wthr EXCEPT !.pc = "cw_write", !.wp = cb.wr, !.idx = 0]
               ELSE [wthr EXCEPT !.pc = "cw_full"]
    /\ UNCHANGED <<ci, g_data, rthr, hist, cb, call, buf, cons, prod, rb>>

\* wr(): the else branch, full++ and the timed wait.
CWFull ==
    /\ wthr.pc = "cw_full"
    /\ wthr' = [wthr EXCEPT !.pc = "cw_free", !.signaled = FALSE,
                            !.full = wthr.full + 1]
    /\ UNCHANGED <<ci, g_data, rthr, hist, cb, call, buf, cons, prod, rb>>

\* wr(): wp[idx] = cnt, one byte of the for loop.
CWWrite ==
    /\ wthr.pc = "cw_write"
    /\ buf' = [buf EXCEPT ![Phys(cb, wthr.wp + wthr.idx)] = wthr.cnt]
    /\ wthr' = [wthr EXCEPT !.idx = wthr.idx + 1,
                            !.pc = IF wthr.idx + 1 < wthr.cnt
                                   THEN "cw_write" ELSE "cw_commit"]
    /\ UNCHANGED <<ci, g_data, rthr, hist, cb, call, cons, prod, rb>>

\* cbuf_commit: the alignment, the atomic load and the clamp.
CWCommit ==
    /\ wthr.pc = "cw_commit"
    /\ wthr' = [wthr EXCEPT !.pc = "cw_commit_1",
                            !.n = cbuf_commit_n(cb, wthr.cnt)]
    /\ UNCHANGED <<ci, g_data, rthr, hist, cb, call, buf, cons, prod, rb>>

\* cbuf_commit: the first store; the bytes are committed once the free
\* count has been taken.
CWCommit1 ==
    /\ wthr.pc = "cw_commit_1"
    /\ cb' = cbuf_commit_fre(cb, wthr.n)
    /\ hist' = [hist EXCEPT
                  !.committed = @ \o [i \in 1..wthr.cnt |->
                                        buf[Phys(cb, wthr.wp + i - 1)]],
                  !.nc = @ + wthr.n]
    /\ wthr' = [wthr EXCEPT !.pc = "cw_commit_2"]
    /\ UNCHANGED <<ci, g_data, rthr, call, buf, cons, prod, rb>>

\* cbuf_commit: the second store.
CWCommit2 ==
    /\ wthr.pc = "cw_commit_2"
    /\ cb' = cbuf_commit_wr(cb, wthr.n)
    /\ wthr' = [wthr EXCEPT !.pc = "cw_after"]
    /\ UNCHANGED <<ci, g_data, rthr, hist, call, buf, cons, prod, rb>>

\* wr(): the next cnt, wcnt++ and the half-way signal.
CWAfter ==
    /\ wthr.pc = "cw_after"
    /\ wthr' = [wthr EXCEPT
                  !.pc = "cw_free",
                  !.cnt = IF MaxChunk = wthr.cnt THEN 1 ELSE wthr.cnt + 1,
                  !.wcnt = wthr.wcnt + 1,
                  !.signaled = IF FALSE = wthr.signaled
                                  /\ cbuf_free(cb) < (cb.max \div 2)
                               THEN TRUE ELSE wthr.signaled]
    /\ UNCHANGED <<ci, g_data, rthr, hist, cb, call, buf, cons, prod, rb>>

CbWriter ==
    \/ CWFree \/ CWFull \/ CWWrite
    \/ CWCommit \/ CWCommit1 \/ CWCommit2 \/ CWAfter

\* rd(): the loop test, if ( false == cbuf_isempty(cb) ) and rp = cbuf_rb(cb).
CRIsEmpty ==
    /\ rthr.pc = "cr_isempty"
    /\ rthr' = IF ~(ITERATIONS > rthr.rcnt /\ ITERATIONS > rthr.empty)
               THEN [rthr EXCEPT !.pc = "done"]
               ELSE IF ~cbuf_isempty(cb)
               THEN [rthr EXCEPT !.pc = "cr_read", !.rp = cb.rd, !.idx = 0]
               ELSE [rthr EXCEPT !.pc = "cr_empty"]
    /\ UNCHANGED <<ci, g_data, wthr, hist, cb, call, buf, cons, prod, rb>>

\* rd(): the else branch, empty++ and the timed wait.
CREmpty ==
    /\ rthr.pc = "cr_empty"
    /\ rthr' = [rthr EXCEPT !.pc = "cr_isempty", !.signaled = FALSE,
                            !.empty = rthr.empty + 1]
    /\ UNCHANGED <<ci, g_data, wthr, hist, cb, call, buf, cons, prod, rb>>

\* rd(): if ( rp[idx] != cnt ) { rderr++; cnt = idx; }, one byte of the loop.
CRRead ==
    /\ rthr.pc = "cr_read"
    /\ LET v == buf[Phys(cb, rthr.rp + rthr.idx)]
           cnt == IF v # rthr.cnt THEN rthr.idx ELSE rthr.cnt
       IN  /\ rthr' = [rthr EXCEPT
                         !.rderr = IF v # rthr.cnt THEN @ + 1 ELSE @,
                         !.cnt = cnt,
                         !.idx = rthr.idx + 1,
                         !.pc = IF rthr.idx + 1 < cnt
                                THEN "cr_read" ELSE "cr_consume"]
           /\ hist' = [hist EXCEPT !.consumed = Append(@, v)]
    /\ UNCHANGED <<ci, g_data, wthr, cb, call, buf, cons, prod, rb>>

\* cbuf_consume: the alignment, the atomic load and the clamp.
CRConsume ==
    /\ rthr.pc = "cr_consume"
    /\ rthr' = [rthr EXCEPT !.pc = "cr_consume_1",
                            !.n = cbuf_consume_n(cb, rthr.cnt)]
    /\ UNCHANGED <<ci, g_data, wthr, hist, cb, call, buf, cons, prod, rb>>

\* cbuf_consume: the first store; the bytes are free once the free count
\* has been given back.
CRConsume1 ==
    /\ rthr.pc = "cr_consume_1"
    /\ cb' = cbuf_consume_fre(cb, rthr.n)
    /\ hist' = [hist EXCEPT !.nr = @ + rthr.n]
    /\ rthr' = [rthr EXCEPT !.pc = "cr_consume_2"]
    /\ UNCHANGED <<ci, g_data, wthr, call, buf, cons, prod, rb>>

\* cbuf_consume: the second store.
CRConsume2 ==
    /\ rthr.pc = "cr_consume_2"
    /\ cb' = cbuf_consume_rd(cb, rthr.n)
    /\ rthr' = [rthr EXCEPT !.pc = "cr_after"]
    /\ UNCHANGED <<ci, g_data, wthr, hist, call, buf, cons, prod, rb>>

\* rd(): the next cnt, rcnt++ and the half-way signal.
CRAfter ==
    /\ rthr.pc = "cr_after"
    /\ rthr' = [rthr EXCEPT
                  !.pc = "cr_isempty",
                  !.cnt = IF MaxChunk = rthr.cnt THEN 1 ELSE rthr.cnt + 1,
                  !.rcnt = rthr.rcnt + 1,
                  !.signaled = IF FALSE = rthr.signaled
                                  /\ cbuf_free(cb) > (cb.max \div 2)
                               THEN TRUE ELSE rthr.signaled]
    /\ UNCHANGED <<ci, g_data, wthr, hist, cb, call, buf, cons, prod, rb>>

CbReader ==
    \/ CRIsEmpty \/ CREmpty \/ CRRead
    \/ CRConsume \/ CRConsume1 \/ CRConsume2 \/ CRAfter

NextCbufTest == CbWriter \/ CbReader

SpecCbufTest == InitCbufTest /\ [][NextCbufTest]_vars

\* The physical bytes that are committed and not yet consumed.
Unconsumed == {Phys(cb, p) : p \in hist.nr..(hist.nc - 1)}

\* s is a prefix of t.
IsPrefix(s, t) == Len(s) <= Len(t) /\ SubSeq(t, 1, Len(s)) = s

\* C12: with one writer thread and one reader thread on a cbuf and no lock,
\* in every interleaving the bytes the reader has read are the committed
\* byte stream in order (the reader never sees a mismatch), every byte the
\* reader reads is committed and unconsumed, and the writer never stores to
\* a byte that is committed and not yet consumed.
C12_ReaderSeesCommittedStream ==
    /\ rthr.rderr = 0
    /\ IsPrefix(hist.consumed, hist.committed)
    /\ wthr.pc = "cw_write" => Phys(cb, wthr.wp + wthr.idx) \notin Unconsumed
    /\ rthr.pc = "cr_read" => Phys(cb, rthr.rp + rthr.idx) \in Unconsumed

\* C12 witness: the reader reads a byte through the second half of the
\* mapping while the writer is storing bytes, after the stream has wrapped.
C12_Witness ==
    /\ rthr.pc = "cr_read"
    /\ rthr.rp + rthr.idx >= cb.max
    /\ wthr.pc = "cw_write"
    /\ Len(hist.committed) > cb.max

\* The amount the writer has taken from the free count and not yet added to
\* the write offset, and the amount the reader has given back to the free
\* count and not yet added to the read offset.
CbWriterPending == IF wthr.pc = "cw_commit_2" THEN wthr.n ELSE 0
CbReaderPending == IF rthr.pc = "cr_consume_2" THEN rthr.n ELSE 0

\* C14 as stated: in cbuf_commit the write offset is advanced before the
\* free count is decremented and in cbuf_consume the read offset is advanced
\* before the free count is incremented, so between the two stores of a call
\* the offset is ahead of the counter by the amount of the call.
C14_IndexBeforeCounter ==
    cb.wr = (cb.rd + cbuf_used(cb) + cb.max
             + CbWriterPending - CbReaderPending) % cb.max

\* C14 amended: in cbuf_commit the free count is decremented before the
\* write offset is advanced and in cbuf_consume the free count is incremented
\* before the read offset is advanced, so between the two stores of a call
\* the counter is ahead of the offset by the amount of the call, and
\* outside them offsets and counter agree.
C14_CounterBeforeIndex ==
    cb.wr = (cb.rd + cbuf_used(cb) + cb.max
             + CbReaderPending - CbWriterPending) % cb.max

\* C14 witness: both threads are between the two stores of their calls,
\* with amounts that move the offsets.
C14_Witness ==
    /\ wthr.pc = "cw_commit_2"
    /\ rthr.pc = "cr_consume_2"
    /\ wthr.n % cb.max # 0
    /\ rthr.n % cb.max # 0
    /\ wthr.n # rthr.n

\* ------------------------------------------------------------------------
\* SpecCbufIO: one thread writing to and reading from a cbuf through the
\* pointers of cbuf_wb and cbuf_rb, with no wrap-aware splitting: k bytes
\* are stored at the virtual offsets wr .. wr + k - 1 and then committed, k
\* bytes are loaded from rd .. rd + k - 1 and then consumed.  The writer
\* stores whole alignment units, so every committed byte was stored.
\* hist.fifo is the reference stream of committed, unconsumed bytes.
\* ------------------------------------------------------------------------

\* The k bytes starting at the virtual offset v, through the mapping.
VRead(c, b, v, k) == [i \in 1..k |-> b[Phys(c, v + i - 1)]]

\* Memory after storing the sequence s at the virtual offsets from v.
VWrite(c, b, v, s) ==
    [p \in DOMAIN b |->
        IF \E i \in 1..Len(s) : Phys(c, v + i - 1) = p
        THEN s[CHOOSE i \in 1..Len(s) : Phys(c, v + i - 1) = p]
        ELSE b[p]]

InitCbufIO ==
    /\ \E align \in AlignArgs : cb = cbuf_create(0, align)
    /\ buf = [i \in 0..(cb.max - 1) |-> 0]
    /\ hist = [fifo |-> <<>>, next |-> 0]
    /\ call = NoCall
    /\ ci = NoCidx
    /\ g_data = NoData
    /\ wthr = NoThread
    /\ rthr = NoThread
    /\ cons = NoCons
    /\ prod = NoProd
    /\ rb = NoRbam

\* Store n <= cbuf_free bytes at cbuf_wb, n being k adjusted to the
\* alignment, then cbuf_commit(n).
IoWrite ==
    \E k \in 1..cbuf_free(cb) :
        LET n == cbuf_commit_n(cb, k)
            s == [i \in 1..n |-> (hist.next + i - 1) % ByteVals]
            r == cbuf_commit(cb, n)
        IN  /\ buf' = VWrite(cb, buf, cb.wr, s)
            /\ cb' = r.cb
            /\ hist' = [fifo |-> hist.fifo \o s,
                        next |-> (hist.next + n) % ByteVals]
            /\ call' = [op |-> "io_write", arg |-> n, ret |-> r.ret,
                        pre |-> cb]
            /\ UNCHANGED <<ci, g_data, wthr, rthr, cons, prod, rb>>

\* Load k <= cbuf_used bytes at cbuf_rb, then cbuf_consume(k).
IoRead ==
    \E k \in 1..cbuf_used(cb) :
        LET r == cbuf_consume(cb, k)
        IN  /\ cb' = r.cb
            /\ hist' = [hist EXCEPT
                          !.fifo = SubSeq(@, r.ret + 1, Len(@))]
            /\ call' = [op |-> "io_read", arg |-> k,
                        ret |-> r.ret, pre |-> cb]
            /\ UNCHANGED <<ci, g_data, wthr, rthr, buf, cons, prod, rb>>

NextCbufIO == IoWrite \/ IoRead

SpecCbufIO == InitCbufIO /\ [][NextCbufIO]_vars

\* C13: after any sequence of commits and consumes, the read range of
\* cbuf_used bytes from the read offset and the write range of cbuf_free
\* bytes from the write offset lie inside the 2 * max mapping, every
\* k <= used bytes read consecutively from the read offset are the k oldest
\* unconsumed stream bytes in order, also across the max boundary, and the
\* write range covers no unconsumed byte.
C13_ContiguousAcrossWrap ==
    /\ cb.rd + cbuf_used(cb) <= 2 * cb.max
    /\ cb.wr + cbuf_free(cb) <= 2 * cb.max
    /\ Len(hist.fifo) = cbuf_used(cb)
    /\ \A k \in 0..cbuf_used(cb) :
          VRead(cb, buf, cb.rd, k) = SubSeq(hist.fifo, 1, k)
    /\ \A i \in 1..cbuf_free(cb), j \in 1..cbuf_used(cb) :
          Phys(cb, cb.wr + i - 1) # Phys(cb, cb.rd + j - 1)

\* C13 witness: the last read took, through one pointer, at least two bytes
\* below the max boundary and at least one above it, and left bytes
\* unconsumed.
C13_Witness ==
    /\ call.op = "io_read"
    /\ call.pre.rd + call.arg > cb.max
    /\ call.pre.rd < cb.max - 1
    /\ cbuf_used(cb) >= 2

\* ------------------------------------------------------------------------
\* SpecBufsize: the size computation of cbuf_create applied to every
\* minsize of the word and every power-of-two page size whose double fits
\* the word.  call.pre holds the page size.
\* ------------------------------------------------------------------------

PageSizes == {2 ^ b : b \in 0..(WordBits - 2)}

InitBufsize ==
    /\ call = NoCall
    /\ cb = NoCbuf
    /\ ci = NoCidx
    /\ g_data = NoData
    /\ wthr = NoThread
    /\ rthr = NoThread
    /\ hist = NoHist
    /\ buf = NoData
    /\ cons = NoCons
    /\ prod = NoProd
    /\ rb = NoRbam

Bufsize ==
    /\ \E minsize \in 0..(Word - 1), pagesize \in PageSizes :
          call' = [op |-> "cbuf_bufsize", arg |-> minsize,
                   ret |-> cbuf_bufsize(minsize, pagesize),
                   pre |-> pagesize]
    /\ UNCHANGED <<ci, g_data, wthr, rthr, hist, cb, buf, cons, prod, rb>>

NextBufsize == Bufsize

SpecBufsize == InitBufsize /\ [][NextBufsize]_vars

\* C15: for every minsize of the word and every power-of-two page size the
\* buffer size is the smallest multiple of the page size that is >= minsize
\* and >= one page; it is never smaller than minsize and never zero.
C15_BufsizeContract ==
    call.op = "cbuf_bufsize" =>
        /\ call.ret % call.pre = 0
        /\ call.ret >= call.arg
        /\ call.ret >= call.pre
        /\ call.ret - call.pre < call.arg \/ call.ret = call.pre

\* ------------------------------------------------------------------------
\* SpecCreate: cbuf_create with the platform calls of one of its three
\* builds (mremap, memfd, Windows) and at most one of them failing.  A
\* mapping with a fixed address lands at that address or fails, so the
\* end-to-end comparison cannot fail on its own; "selftest" is a failing
\* alias self-test.  held is the set of resources of the process that
\* exist when the call returns: the halves of the address range that are
\* mapped or reserved, the descriptor, the mapping object.
\* ------------------------------------------------------------------------

NULL == "NULL"
MAP_FAILED == "MAP_FAILED"

\* The platform calls of each build, in program order, and the self-test.
CreateSteps ==
    [mremap |-> <<"mmap", "mremap4", "mremap5", "selftest">>,
     memfd |-> <<"memfd_create", "ftruncate", "mmap", "mmap_lo", "mmap_hi",
                 "selftest">>,
     win |-> <<"VirtualAlloc2", "VirtualFree", "CreateFileMapping",
               "MapView_lo", "MapView_hi", "selftest">>]

\* The platform error code (errno, GetLastError) a failing call leaves; the
\* self-test is no platform call and leaves none.
ErrCode(path, fail) ==
    IF fail \in {"none", "selftest"} THEN 0
    ELSE CHOOSE i \in 1..Len(CreateSteps[path]) : CreateSteps[path][i] = fail

\* The steps of a build before the failing one have succeeded.
Passed(path, fail, step) ==
    LET idx(x) == CHOOSE i \in 1..Len(CreateSteps[path]) :
                      CreateSteps[path][i] = x
    IN  fail = "none" \/ idx(step) < idx(fail)

\* The DONE block of cbuf_create_nix.
cbuf_create_nix_done(rval, addr, memfd, live, bufsize) ==
    LET buf0 == IF rval = 0 THEN addr ELSE NULL
        closed == IF 0 <= memfd THEN live \ {"memfd"} ELSE live
        unmapped == IF NULL = buf0 /\ MAP_FAILED # addr
                    THEN closed \ {"lo", "hi"} ELSE closed
    IN  [rval |-> rval, buf |-> buf0,
         max |-> IF rval = 0 THEN bufsize ELSE 0,
         fre |-> IF rval = 0 THEN bufsize ELSE 0,
         lasterr |-> 0, held |-> unmapped]

\* cbuf_create_nix built with CBUF_HAVE_MREMAP.
cbuf_create_nix_mremap(bufsize, fail) ==
    LET P(step) == Passed("mremap", fail, step)
    IN  IF ~P("mmap")
        THEN cbuf_create_nix_done(0 - 1, MAP_FAILED, 0 - 1, {}, bufsize)
        ELSE IF ~P("mremap4")
        THEN cbuf_create_nix_done(0 - 1, MAP_FAILED, 0 - 1, {"lo", "hi"},
                                  bufsize)
        ELSE IF ~P("mremap5")
        THEN cbuf_create_nix_done(0 - 1, "addr", 0 - 1, {"lo"}, bufsize)
        ELSE IF ~P("selftest")
        THEN cbuf_create_nix_done(0 - 1, "addr", 0 - 1, {"lo", "hi"},
                                  bufsize)
        ELSE cbuf_create_nix_done(0, "addr", 0 - 1, {"lo", "hi"}, bufsize)

\* cbuf_create_nix built without CBUF_HAVE_MREMAP.
cbuf_create_nix_memfd(bufsize, fail) ==
    LET P(step) == Passed("memfd", fail, step)
    IN  IF ~P("memfd_create")
        THEN cbuf_create_nix_done(0 - 1, MAP_FAILED, 0 - 1, {}, bufsize)
        ELSE IF ~P("ftruncate") \/ ~P("mmap")
        THEN cbuf_create_nix_done(0 - 1, MAP_FAILED, 3, {"memfd"}, bufsize)
        ELSE IF ~P("mmap_lo") \/ ~P("mmap_hi") \/ ~P("selftest")
        THEN cbuf_create_nix_done(0 - 1, "addr", 3, {"memfd", "lo", "hi"},
                                  bufsize)
        ELSE cbuf_create_nix_done(0, "addr", 3, {"memfd", "lo", "hi"},
                                  bufsize)

\* The DONE block of cbuf_create_win.  split tells whether the reservation
\* at addr_low still spans both halves.
cbuf_create_win_done(rval, lasterr, mapobj, addr_low, addr_high, view_low, view_high, split, live, bufsize) ==
    LET l1 == IF NULL # mapobj THEN live \ {"mapobj"} ELSE live
        l2 == IF NULL # addr_low
              THEN l1 \ (IF split THEN {"lo"} ELSE {"lo", "hi"}) ELSE l1
        l3 == IF NULL # addr_high THEN l2 \ {"hi"} ELSE l2
        l4 == IF NULL # view_low THEN l3 \ {"lo"} ELSE l3
        l5 == IF NULL # view_high THEN l4 \ {"hi"} ELSE l4
    IN  [rval |-> rval, buf |-> IF rval = 0 THEN "addr" ELSE NULL,
         max |-> IF rval = 0 THEN bufsize ELSE 0,
         fre |-> IF rval = 0 THEN bufsize ELSE 0,
         lasterr |-> lasterr, held |-> l5]

\* cbuf_create_win.
cbuf_create_win(bufsize, fail) ==
    LET P(step) == Passed("win", fail, step)
        E == ErrCode("win", fail)
    IN  IF ~P("VirtualAlloc2")
        THEN cbuf_create_win_done(0 - 1, E, NULL, NULL, NULL, NULL, NULL,
                                  FALSE, {}, bufsize)
        ELSE IF ~P("VirtualFree")
        THEN cbuf_create_win_done(0 - 1, E, NULL, "addr", NULL, NULL, NULL,
                                  FALSE, {"lo", "hi"}, bufsize)
        ELSE IF ~P("CreateFileMapping")
        THEN cbuf_create_win_done(0 - 1, E, NULL, "addr", "addr_high", NULL,
                                  NULL, TRUE, {"lo", "hi"}, bufsize)
        ELSE IF ~P("MapView_lo")
        THEN cbuf_create_win_done(0 - 1, E, "mapobj", "addr", "addr_high",
                                  NULL, NULL, TRUE,
                                  {"lo", "hi", "mapobj"}, bufsize)
        ELSE IF ~P("MapView_hi")
        THEN cbuf_create_win_done(0 - 1, E, "mapobj", NULL, "addr_high",
                                  "addr", NULL, TRUE,
                                  {"lo", "hi", "mapobj"}, bufsize)
        ELSE IF ~P("selftest")
        THEN cbuf_create_win_done(0 - 1, 0, "mapobj", NULL, NULL,
                                  "addr", "addr_high", TRUE,
                                  {"lo", "hi", "mapobj"}, bufsize)
        ELSE cbuf_create_win_done(0, 0, "mapobj", NULL, NULL, NULL, NULL,
                                  TRUE, {"lo", "hi", "mapobj"}, bufsize)

\* cbuf_create: the size, the alignment and the build's allocation.
cbuf_create_on(path, minsize, align, fail) ==
    LET bufsize == cbuf_bufsize(minsize, PageSize)
    IN  IF path = "win" THEN cbuf_create_win(bufsize, fail)
        ELSE IF path = "mremap" THEN cbuf_create_nix_mremap(bufsize, fail)
        ELSE cbuf_create_nix_memfd(bufsize, fail)

InitCreate ==
    /\ call = NoCall
    /\ cb = NoCbuf
    /\ ci = NoCidx
    /\ g_data = NoData
    /\ wthr = NoThread
    /\ rthr = NoThread
    /\ hist = NoHist
    /\ buf = NoData
    /\ cons = NoCons
    /\ prod = NoProd
    /\ rb = NoRbam

\* One call of cbuf_create on a zeroed or reused structure.
Create ==
    /\ \E path \in DOMAIN CreateSteps, minsize \in 0..MaxMinSize,
          align \in AlignArgs :
          \E fail \in {"none"} \cup
                      {CreateSteps[path][i] : i \in 1..Len(CreateSteps[path])} :
             LET r == cbuf_create_on(path, minsize, align, fail)
                 c == cbuf_create(minsize, align)
             IN  /\ call' = [op |-> "cbuf_create",
                             arg |-> <<path, fail, minsize, align>>,
                             ret |-> r,
                             pre |-> ErrCode(path, fail)]
                 /\ cb' = [c EXCEPT !.max = r.max, !.fre = r.fre]
    /\ UNCHANGED <<ci, g_data, wthr, rthr, hist, buf, cons, prod, rb>>

NextCreate == Create

SpecCreate == InitCreate /\ [][NextCreate]_vars

\* C16: whichever step fails, in each of the three builds, cbuf_create
\* returns -1 with buf NULL and max 0, and every mapping, reservation,
\* descriptor or handle acquired before the failing step has been released
\* when the call returns.
C16_FailureReleasesAll ==
    (call.op = "cbuf_create" /\ call.arg[2] # "none") =>
        /\ call.ret.rval = 0 - 1
        /\ call.ret.buf = NULL
        /\ call.ret.max = 0
        /\ call.ret.held = {}

\* C17: whenever cbuf_create returns failure, lasterr holds the platform
\* error code of the failing step; it is set on every failure path,
\* the self-test included.
C17_LasterrSet ==
    (call.op = "cbuf_create" /\ call.ret.rval # 0) =>
        /\ call.ret.lasterr # 0
        /\ call.arg[2] # "selftest" => call.ret.lasterr = call.pre

\* ------------------------------------------------------------------------
\* LineLog: out_cons of disco.cpp (console_write of console.c is the same
\* code).  cons holds the byte store buf, the descriptors linelist, the
\* sentinel ring rbam over the descriptors, the mutex (0 when free, else
\* the holder) and lockfailures.  A text is the memory at the pointer
\* passed in, a sequence of bytes ending with a terminator; text[idx] of
\* the code is Byte(text, idx).
\* ------------------------------------------------------------------------

XYZ_NTERM == 0
LF == 10
CR == 13
Ordinary == 97

\* A byte of the store that was never written (the store is malloc'ed).
Uninit == 0 - 1

Byte(text, idx) == text[idx + 1]

xyz_rbam_init(dim) ==
    [dim |-> dim, rd |-> 0, wr |-> 0, next |-> 1, used |-> 0,
     free |-> dim - 1]

xyz_rbam_next(rbam, index) ==
    IF index >= rbam.dim - 1 THEN 0 ELSE index + 1

xyz_rbam_is_full(rbam) == rbam.next = rbam.rd

xyz_rbam_is_empty(rbam) == rbam.rd = rbam.wr

\* The use statistics left as they are.
xyz_rbam_stats_mut(rbam) == rbam

\* The use statistics both xyz_rbam_write and xyz_rbam_read recompute.
xyz_rbam_stats(rbam) ==
    LET used == IF rbam.wr >= rbam.rd THEN rbam.wr - rbam.rd
                ELSE (rbam.dim - rbam.rd) + rbam.wr
    IN  [rbam EXCEPT !.used = used, !.free = rbam.dim - used - 1]

xyz_rbam_write(rbam) ==
    IF xyz_rbam_is_full(rbam) THEN rbam
    ELSE xyz_rbam_stats([rbam EXCEPT !.wr = rbam.next,
                                     !.next = xyz_rbam_next(rbam, rbam.next)])

xyz_rbam_read(rbam) ==
    IF xyz_rbam_is_empty(rbam) THEN rbam
    ELSE xyz_rbam_stats([rbam EXCEPT !.rd = xyz_rbam_next(rbam, rbam.rd)])

\* The console log after the default initialization of the program data.
InitCons ==
    [buf |-> [i \in 0..(CONS_BUF_DIM - 1) |-> Uninit],
     linelist |-> [i \in 0..(CONS_LINELIST_DIM - 1) |-> [pos |-> 0, len |-> 0]],
     rbam |-> xyz_rbam_init(CONS_LINELIST_DIM),
     mutex |-> 0,
     lockfailures |-> 0,
     bufdim |-> CONS_BUF_DIM]

\* The inner loop at a terminator, were the terminator taken into the
\* line as a line end is.
out_cons_nterm_mut(idx, linelen, rdmax) ==
    [idx |-> idx + 1, linelen |-> linelen + 1, len |-> idx + 1,
     rdmax |-> IF idx + 1 > rdmax THEN idx + 1 ELSE rdmax]

\* out_cons: the inner loop at a terminator: the input ends here.
out_cons_nterm(idx, linelen, rdmax) ==
    [idx |-> idx, linelen |-> linelen, len |-> idx,
     rdmax |-> IF idx + 1 > rdmax THEN idx + 1 ELSE rdmax]

\* out_cons: the inner loop, which finds the end of the line that starts
\* at idx - linelen.  rdmax is the number of leading bytes of the text the
\* call has read so far.
RECURSIVE out_cons_scan(_, _, _, _, _)
out_cons_scan(text, len, idx, linelen, rdmax) ==
    IF ~(linelen < CONS_MAX_LINE)
    THEN [idx |-> idx, linelen |-> linelen, len |-> len, rdmax |-> rdmax]
    ELSE IF Byte(text, idx) = XYZ_NTERM
    THEN out_cons_nterm(idx, linelen, rdmax)
    ELSE IF Byte(text, idx) = LF \/ Byte(text, idx) = CR
    THEN IF idx + 1 < len /\ Byte(text, idx) = CR
            /\ Byte(text, idx + 1) = LF
         THEN [idx |-> idx + 2, linelen |-> linelen + 2, len |-> len,
               rdmax |-> IF idx + 2 > rdmax THEN idx + 2 ELSE rdmax]
         ELSE [idx |-> idx + 1, linelen |-> linelen + 1, len |-> len,
               rdmax |-> IF idx + 1 < len /\ Byte(text, idx) = CR
                            /\ idx + 2 > rdmax
                         THEN idx + 2
                         ELSE IF idx + 1 > rdmax THEN idx + 1 ELSE rdmax]
    ELSE out_cons_scan(text, len, idx + 1, linelen + 1,
                       IF idx + 1 > rdmax THEN idx + 1 ELSE rdmax)

\* The line being stored: ln.cons is the log, ln.linelen counts the
\* terminator, ln.newpos is the local of that name.  Each step is applied
\* to the value the step before it left, drawn from a singleton set.

\* out_cons without the read that makes room in a full line list.
cons_make_room_mut(ln) == ln

\* out_cons: if the line list is full, make room for the new line.
cons_make_room(ln) ==
    IF xyz_rbam_is_full(ln.cons.rbam)
    THEN [ln EXCEPT !.cons.rbam = xyz_rbam_read(ln.cons.rbam)] ELSE ln

\* out_cons: the position of the end of the line in the buffer.
cons_newpos(ln) ==
    [ln EXCEPT !.newpos = ln.cons.linelist[ln.cons.rbam.wr].pos + ln.linelen]

\* out_cons without the loop that clears the top lines.
cons_clear_top_mut(ln) == ln

\* out_cons: clear any top lines that would be overwritten by the new line.
RECURSIVE cons_clear_top(_)
cons_clear_top(ln) ==
    IF /\ ln.cons.linelist[ln.cons.rbam.rd].pos
              >= ln.cons.linelist[ln.cons.rbam.wr].pos
       /\ ln.cons.linelist[ln.cons.rbam.rd].pos < ln.newpos
       /\ ~xyz_rbam_is_empty(ln.cons.rbam)
    THEN CHOOSE r \in
            {cons_clear_top(x) :
                x \in {[ln EXCEPT !.cons.rbam =
                                     xyz_rbam_read(ln.cons.rbam)]}} : TRUE
    ELSE ln

\* out_cons without the loop that clears the lines at position 0.
cons_clear_wrapped_mut(ln) == ln

\* out_cons: clear any lines the line restarted at position 0 overwrites.
RECURSIVE cons_clear_wrapped(_)
cons_clear_wrapped(ln) ==
    IF /\ ln.cons.linelist[ln.cons.rbam.rd].pos < ln.newpos
       /\ ~xyz_rbam_is_empty(ln.cons.rbam)
    THEN CHOOSE r \in
            {cons_clear_wrapped(x) :
                x \in {[ln EXCEPT !.cons.rbam =
                                     xyz_rbam_read(ln.cons.rbam)]}} : TRUE
    ELSE ln

\* out_cons without the restart at position 0.
cons_wrap_mut(ln) == ln

\* out_cons: restart at position 0 if the line does not fit in the
\* remainder of the buffer.
cons_wrap(ln) ==
    IF ln.newpos > ln.cons.bufdim
    THEN CHOOSE r \in
            {cons_clear_wrapped(x) :
                x \in {[ln EXCEPT !.cons.linelist[ln.cons.rbam.wr].pos = 0,
                                  !.newpos = ln.linelen]}} : TRUE
    ELSE ln

\* out_cons: the length, the memcpy of linelen - 1 bytes and the
\* terminator in the last reserved byte.
cons_copy(ln) ==
    [ln EXCEPT
       !.cons.linelist[ln.cons.rbam.wr].len = ln.linelen,
       !.cons.buf =
          [i \in DOMAIN ln.cons.buf |->
             IF i = ln.newpos - 1 THEN XYZ_NTERM
             ELSE IF /\ i >= ln.cons.linelist[ln.cons.rbam.wr].pos
                     /\ i < ln.cons.linelist[ln.cons.rbam.wr].pos
                              + ln.linelen - 1
             THEN Byte(ln.text, ln.start_idx
                          + (i - ln.cons.linelist[ln.cons.rbam.wr].pos))
             ELSE ln.cons.buf[i]]]

\* out_cons: indicate that a new line has been written.
cons_written(ln) == [ln EXCEPT !.cons.rbam = xyz_rbam_write(ln.cons.rbam)]

\* out_cons: prepare for the next line.
cons_prepare(ln) ==
    [ln EXCEPT !.cons.linelist[ln.cons.rbam.wr] =
                  [pos |-> ln.newpos, len |-> 0]]

\* out_cons: store the line text[start_idx .. start_idx + linelen - 2] and
\* its terminator; linelen counts the terminator.
out_cons_line(c, text, start_idx, linelen) ==
    CHOOSE r \in
      {cons_prepare(l8).cons :
        l8 \in {cons_make_room(l7) :
        l7 \in {cons_written(l6) :
        l6 \in {cons_copy(l5) :
        l5 \in {cons_wrap(l4) :
        l4 \in {cons_clear_top(l3) :
        l3 \in {cons_newpos(l2) :
        l2 \in {cons_make_room(l1) :
        l1 \in {[cons |-> c, text |-> text, start_idx |-> start_idx,
                 linelen |-> linelen, newpos |-> 0]}}}}}}}}} : TRUE

\* out_cons: what follows the inner loop in one pass of the loop
\* while ( idx < len ).  st holds the log, the text and the locals; sc is
\* what the inner loop found.  copied is the number of bytes of the text
\* copied into stored lines, lines the sequence of the stored segments and
\* descs the descriptor each was stored with.
out_cons_pass(st, sc) ==
    IF sc.linelen + 1 > st.cons.bufdim
    THEN [st EXCEPT !.len = sc.len, !.idx = sc.idx, !.rdmax = sc.rdmax]
    ELSE CHOOSE r \in
           {[st EXCEPT
               !.cons = c,
               !.len = sc.len, !.idx = sc.idx, !.rdmax = sc.rdmax,
               !.copied = @ + sc.linelen,
               !.lines = Append(@, SubSeq(st.text, st.idx + 1,
                                          st.idx + sc.linelen)),
               !.descs = Append(@, c.linelist[st.cons.rbam.wr])] :
              c \in {out_cons_line(st.cons, st.text, st.idx,
                                   sc.linelen + 1)}} : TRUE

\* out_cons: the loop while ( idx < len ), run with the mutex held.
RECURSIVE out_cons_while(_)
out_cons_while(st) ==
    IF ~(st.idx < st.len) THEN st
    ELSE CHOOSE r \in
            {out_cons_while(nx) :
                nx \in {out_cons_pass(st, sc) :
                          sc \in {out_cons_scan(st.text, st.len, st.idx, 0,
                                                st.rdmax)}}} : TRUE

out_cons_loop(c, text, len, idx, copied, rdmax, lines) ==
    CHOOSE r \in
      {out_cons_while(st) :
         st \in {[cons |-> c, text |-> text, len |-> len, idx |-> idx,
                  copied |-> copied, rdmax |-> rdmax, lines |-> lines,
                  descs |-> <<>>]}} : TRUE

\* The test on entry without the test of the first byte.
out_cons_isempty_mut(text, len) == len = 0

\* out_cons: the test on entry; the call returns 0 at once.
out_cons_isempty(text, len) == len = 0 \/ Byte(text, 0) = XYZ_NTERM

\* out_cons: the length after the clamp to four lines.
out_cons_clamp(len) ==
    IF len > CONS_MAX_LINE * 4 THEN CONS_MAX_LINE * 4 ELSE len

\* ------------------------------------------------------------------------
\* SpecAppend: one call of out_cons on the console log as the program
\* initializes it, for every text and length of Texts.  The mutex is free,
\* so the first SDL_TryLockMutex succeeds.  call.pre holds what the call
\* did: the bytes copied, the bytes read and the segments stored.
\* ------------------------------------------------------------------------

\* The texts tried: every text of at most MaxText bytes and texts longer
\* than four lines, each followed by a terminator.
ShortTexts ==
    UNION {[1..n -> {Ordinary, LF, CR, XYZ_NTERM}] : n \in 0..MaxText}

LongTexts ==
    {pre \o [i \in 1..(CONS_MAX_LINE * 4 + 1) |-> Ordinary] :
        pre \in {<<>>, <<LF>>, <<CR, LF>>}}

Texts == {Append(t, XYZ_NTERM) : t \in ShortTexts \cup LongTexts}

\* What out_cons returns and leaves when the mutex was free: r is the
\* result of the line loop.
out_cons_end(r) ==
    [cons |-> [r.cons EXCEPT !.mutex = 0], len |-> r.len,
     copied |-> r.copied, rdmax |-> r.rdmax, lines |-> r.lines,
     descs |-> r.descs, locked |-> 0]

\* out_cons called with the mutex free.
out_cons(c, text, len) ==
    IF out_cons_isempty(text, len)
    THEN [cons |-> c, len |-> 0, copied |-> 0, rdmax |-> 0, lines |-> <<>>,
          descs |-> <<>>, locked |-> 0 - 1]
    ELSE CHOOSE e \in
           {out_cons_end(r) :
              r \in {out_cons_loop([c EXCEPT !.mutex = 1], text,
                                   out_cons_clamp(len), 0, 0, 1, <<>>)}} : TRUE

InitAppend ==
    /\ \E text \in Texts : \E len \in 0..(Len(text) - 1) :
          prod = [p \in {1} |-> [pc |-> "call", text |-> text, len |-> len]]
    /\ cons = InitCons
    /\ call = NoCall
    /\ cb = NoCbuf
    /\ ci = NoCidx
    /\ g_data = NoData
    /\ wthr = NoThread
    /\ rthr = NoThread
    /\ hist = NoHist
    /\ buf = NoData
    /\ rb = NoRbam

AppendCall ==
    /\ prod[1].pc = "call"
    /\ \E r \in {out_cons(cons, prod[1].text, prod[1].len)} :
          /\ cons' = r.cons
          /\ call' = [op |-> "out_cons",
                      arg |-> <<prod[1].text, prod[1].len>>,
                      ret |-> r.len,
                      pre |-> [copied |-> r.copied, rdmax |-> r.rdmax,
                               lines |-> r.lines, locked |-> r.locked]]
    /\ prod' = [prod EXCEPT ![1].pc = "idle"]
    /\ UNCHANGED <<ci, g_data, wthr, rthr, hist, cb, buf, rb>>

NextAppend == AppendCall

SpecAppend == InitAppend /\ [][NextAppend]_vars

\* C18: for every call that acquires the lock, the value returned is the
\* number of input bytes copied into stored lines and is at most
\* min(len, 4 * CONS_MAX_LINE), and no input byte at an index >=
\* min(len, 4 * CONS_MAX_LINE) is read or stored.
C18_ReturnIsBytesCopied ==
    (call.op = "out_cons" /\ call.pre.locked = 0) =>
        /\ call.ret = call.pre.copied
        /\ call.ret <= Min(call.arg[2], CONS_MAX_LINE * 4)
        /\ call.pre.rdmax <= Min(call.arg[2], CONS_MAX_LINE * 4)

\* ------------------------------------------------------------------------
\* SpecLock: NProd threads calling out_cons on one console log.  Each
\* step of a thread holds one access to shared state: a try-lock, the load
\* or the store of lockfailures++ (a plain, unprotected increment), the
\* whole line loop (run with the mutex held), the unlock.  locked is the
\* local of that name: 0 when the thread got the mutex.  fails counts the
\* failed try-locks of the thread's current call.  call records the last
\* return: the thread, the value returned and the failed try-locks of the
\* call; hist.calls counts the calls made.
\* ------------------------------------------------------------------------

Producers == 1..NProd

\* The texts and lengths the threads pass.
LockInputs ==
    {<<<<Ordinary, LF, XYZ_NTERM>>, 2>>, <<<<Ordinary, XYZ_NTERM>>, 1>>,
     <<<<XYZ_NTERM>>, 0>>}

InitProducer ==
    [pc |-> "idle", text |-> <<XYZ_NTERM>>, len |-> 0, locked |-> 0 - 1,
     tmp |-> 0, fails |-> 0]

InitLock ==
    /\ cons = InitCons
    /\ prod = [p \in Producers |-> InitProducer]
    /\ rb = NoRbam
    /\ hist = [calls |-> 0]
    /\ call = NoCall
    /\ cb = NoCbuf
    /\ ci = NoCidx
    /\ g_data = NoData
    /\ wthr = NoThread
    /\ rthr = NoThread
    /\ buf = NoData

\* A try-lock that succeeds whether or not the mutex is held.
SDL_TryLockMutex_mut(c, p) == [locked |-> 0, cons |-> [c EXCEPT !.mutex = p]]

\* SDL_TryLockMutex by the thread p: 0 and the mutex taken, or non-zero.
SDL_TryLockMutex(c, p) ==
    IF c.mutex = 0 THEN [locked |-> 0, cons |-> [c EXCEPT !.mutex = p]]
    ELSE [locked |-> 0 - 1, cons |-> c]

\* Where out_cons goes after the second failed try-lock, were the
\* XYZ_BREAK missing.
out_cons_dropped_mut == "store"

\* Where out_cons goes after the second failed try-lock (XYZ_BREAK).
out_cons_dropped == "end"

\* out_cons: entry, the empty test and the clamp.
PCall(p) ==
    /\ prod[p].pc = "idle"
    /\ hist.calls < MaxCalls
    /\ hist' = [hist EXCEPT !.calls = @ + 1]
    /\ \E in \in LockInputs :
          prod' = [prod EXCEPT
                     ![p].text = in[1],
                     ![p].locked = 0 - 1,
                     ![p].fails = 0,
                     ![p].len = IF out_cons_isempty(in[1], in[2]) THEN 0
                                ELSE out_cons_clamp(in[2]),
                     ![p].pc = IF out_cons_isempty(in[1], in[2]) THEN "end"
                               ELSE "try1"]
    /\ UNCHANGED <<ci, g_data, wthr, rthr, cb, call, buf, cons, rb>>

\* out_cons: the first SDL_TryLockMutex.
PTry1(p) ==
    /\ prod[p].pc = "try1"
    /\ \E r \in {SDL_TryLockMutex(cons, p)} :
          /\ cons' = r.cons
          /\ prod' = [prod EXCEPT
                        ![p].locked = r.locked,
                        ![p].fails = IF r.locked # 0 THEN @ + 1 ELSE @,
                        ![p].pc = IF r.locked # 0 THEN "inc1" ELSE "store"]
    /\ UNCHANGED <<ci, g_data, wthr, rthr, hist, cb, call, buf, rb>>

\* lockfailures++: the load.
PIncLoad(p) ==
    /\ prod[p].pc \in {"inc1", "inc2"}
    /\ prod' = [prod EXCEPT
                  ![p].tmp = cons.lockfailures,
                  ![p].pc = IF prod[p].pc = "inc1" THEN "inc1s" ELSE "inc2s"]
    /\ UNCHANGED <<ci, g_data, wthr, rthr, hist, cb, call, buf, cons, rb>>

\* lockfailures++: the store.  After the first failure SDL_Delay follows,
\* after the second the call is over.
PIncStore(p) ==
    /\ prod[p].pc \in {"inc1s", "inc2s"}
    /\ cons' = [cons EXCEPT !.lockfailures = prod[p].tmp + 1]
    /\ prod' = [prod EXCEPT
                  ![p].tmp = 0,
                  ![p].pc = IF prod[p].pc = "inc1s" THEN "delay"
                            ELSE out_cons_dropped]
    /\ UNCHANGED <<ci, g_data, wthr, rthr, hist, cb, call, buf, rb>>

\* Where out_cons goes after SDL_Delay(1), were the sleep to have no end.
out_cons_delayed_mut == "delay"

\* Where out_cons goes after SDL_Delay(1): the second try-lock.
out_cons_delayed == "try2"

\* out_cons: SDL_Delay(1) returns.
PDelay(p) ==
    /\ prod[p].pc = "delay"
    /\ prod' = [prod EXCEPT ![p].pc = out_cons_delayed]
    /\ UNCHANGED <<ci, g_data, wthr, rthr, hist, cb, call, buf, cons, rb>>

\* out_cons: the second SDL_TryLockMutex.
PTry2(p) ==
    /\ prod[p].pc = "try2"
    /\ \E r \in {SDL_TryLockMutex(cons, p)} :
          /\ cons' = r.cons
          /\ prod' = [prod EXCEPT
                        ![p].locked = r.locked,
                        ![p].fails = IF r.locked # 0 THEN @ + 1 ELSE @,
                        ![p].pc = IF r.locked # 0 THEN "inc2" ELSE "store"]
    /\ UNCHANGED <<ci, g_data, wthr, rthr, hist, cb, call, buf, rb>>

\* out_cons: the line loop.
PStore(p) ==
    /\ prod[p].pc = "store"
    /\ \E r \in {out_cons_loop(cons, prod[p].text, prod[p].len, 0, 0, 1,
                               <<>>)} :
          /\ cons' = r.cons
          /\ prod' = [prod EXCEPT ![p].len = r.len, ![p].pc = "end"]
    /\ UNCHANGED <<ci, g_data, wthr, rthr, hist, cb, call, buf, rb>>

\* out_cons: the unlock, if locked, and return len.
PEnd(p) ==
    /\ prod[p].pc = "end"
    /\ cons' = IF prod[p].locked = 0 THEN [cons EXCEPT !.mutex = 0] ELSE cons
    /\ call' = [op |-> "out_cons", arg |-> p, ret |-> prod[p].len,
                pre |-> prod[p].fails]
    /\ prod' = [prod EXCEPT ![p] = InitProducer]
    /\ UNCHANGED <<ci, g_data, wthr, rthr, hist, cb, buf, rb>>

Producer(p) ==
    \/ PCall(p) \/ PTry1(p) \/ PIncLoad(p) \/ PIncStore(p)
    \/ PDelay(p) \/ PTry2(p) \/ PStore(p) \/ PEnd(p)

NextLock == \E p \in Producers : Producer(p)

SpecLock == InitLock /\ [][NextLock]_vars

\* C19: when both the first try-lock and the retry of a call fail, the
\* call returns 0, not the input length.
C19_DroppedReturnsZero ==
    (call.op = "out_cons" /\ call.pre = 2) => call.ret = 0

\* The log proper: the ring cursors, the descriptors, the byte store and
\* the mutex; everything of cons but lockfailures.
LogState(c) == <<c.rbam, c.linelist, c.buf, c.bufdim, c.mutex>>

\* C20: a call that does not get the lock leaves the log unchanged: no
\* step of a thread that does not hold the mutex before or after it (the
\* entry, a failed try-lock, the increments, the delay, the return of a
\* dropped call) changes the ring cursors, a descriptor, the write offset
\* or a byte of the store; only lockfailures changes.
C20_DroppedLeavesLog ==
    [][\A p \in Producers :
          (prod'[p] # prod[p] /\ prod[p].locked # 0 /\ prod'[p].locked # 0)
              => LogState(cons') = LogState(cons)]_vars

\* C20 witness: a thread has returned from a call whose two try-locks
\* failed, while the log holds a line another thread stored.
C20_Witness ==
    /\ call.op = "out_cons"
    /\ call.pre = 2
    /\ cons.lockfailures >= 2
    /\ cons.rbam.used > 0

\* ------------------------------------------------------------------------
\* SpecLockLive: SpecLock where the scheduler keeps running thread 1 once
\* it is inside out_cons.  No other thread is required to run: a thread
\* that holds the mutex may hold it forever.
\* ------------------------------------------------------------------------

\* The steps of out_cons after its entry.
PRun(p) ==
    \/ PTry1(p) \/ PIncLoad(p) \/ PIncStore(p) \/ PDelay(p)
    \/ PTry2(p) \/ PStore(p) \/ PEnd(p)

SpecLockLive == SpecLock /\ WF_vars(PRun(1))

\* The try-locks and the sleep of one call, by the failed try-locks so
\* far: the first try-lock is made with none, the sleep and the second
\* try-lock with one, and after two there is no further attempt.
TryLockOrder(p) ==
    /\ prod[p].pc = "try1" => prod[p].fails = 0
    /\ prod[p].pc \in {"inc1", "inc1s", "delay", "try2"} => prod[p].fails = 1
    /\ prod[p].pc \in {"inc2", "inc2s"} => prod[p].fails = 2
    /\ prod[p].fails <= 2

\* The line loop of thread p stores at most as many lines as the clamped
\* length it starts with.
LineLoopBound(p) ==
    (prod[p].pc = "store" /\ prod'[p].pc = "end") =>
        /\ prod[p].len <= CONS_MAX_LINE * 4
        /\ Len(out_cons_loop(cons, prod[p].text, prod[p].len, 0, 0, 1,
                             <<>>).lines) <= prod[p].len

\* C21: a call of out_cons makes at most two try-lock attempts, with one
\* SDL_Delay between them, stores at most as many lines as its clamped
\* length, and returns, even if another thread holds the mutex forever.
C21_AppendReturns ==
    /\ [](\A p \in Producers : TryLockOrder(p))
    /\ [][\A p \in Producers : LineLoopBound(p)]_vars
    /\ (prod[1].pc # "idle") ~> (prod[1].pc = "idle")

\* C21 witness: thread 1 has returned from a call whose two try-locks
\* failed while thread 2 still holds the mutex.
C21_Witness ==
    /\ call.op = "out_cons"
    /\ call.arg = 1
    /\ call.pre = 2
    /\ prod[1].pc = "idle"
    /\ cons.mutex = 2

\* ------------------------------------------------------------------------
\* SpecRender: the render thread drawing the console window
\* (console_ui_window) while other threads call out_cons.  The render
\* thread is thread 1: it makes its read pass over the line list and then,
\* when a line was entered in the input box, calls out_cons itself.  rthr
\* holds its position in the pass and the locals: items is the count handed
\* to clipper.Begin, line_no the line being drawn, idx and pos the
\* descriptor chosen and its position, text the bytes last drawn.  The
\* clipper shows every item.  The window code takes no lock, so each of its
\* reads of pd->cons is a step of its own.
\* ------------------------------------------------------------------------

\* A read beyond the end of the byte store.
OutOfStore == 0 - 2

\* The bytes "%s" draws from buf + pos: up to the first terminator.
RECURSIVE cons_str(_, _)
cons_str(c, pos) ==
    IF pos >= c.bufdim THEN <<OutOfStore>>
    ELSE IF c.buf[pos] = XYZ_NTERM THEN <<>>
    ELSE <<c.buf[pos]>> \o cons_str(c, pos + 1)

\* console_ui_window: the index of the descriptor of line line_no, or dim
\* where the loop breaks.
console_idx(rbam, line_no) ==
    IF rbam.rd <= rbam.wr
    THEN IF rbam.rd + line_no >= rbam.wr THEN rbam.dim
         ELSE rbam.rd + line_no
    ELSE IF rbam.rd + line_no >= rbam.dim
    THEN IF rbam.rd + line_no - rbam.dim >= rbam.wr THEN rbam.dim
         ELSE rbam.rd + line_no - rbam.dim
    ELSE rbam.rd + line_no

InitRenderer ==
    [pc |-> "idle", items |-> 0, line_no |-> 0, idx |-> 0, pos |-> 0,
     text |-> <<>>]

InitRender ==
    /\ cons = InitCons
    /\ prod = [p \in Producers |-> InitProducer]
    /\ rb = NoRbam
    /\ rthr = InitRenderer
    /\ hist = [calls |-> 0]
    /\ call = NoCall
    /\ cb = NoCbuf
    /\ ci = NoCidx
    /\ g_data = NoData
    /\ wthr = NoThread
    /\ buf = NoData

\* console_ui_window: the statistics line and clipper.Begin(rbam.used).
CBegin ==
    /\ rthr.pc = "idle"
    /\ prod[1].pc = "idle"
    /\ rthr' = [InitRenderer EXCEPT !.pc = "line", !.items = cons.rbam.used]
    /\ UNCHANGED <<ci, g_data, wthr, hist, cb, call, buf, cons, prod, rb>>

\* console_ui_window: the head of the for loop, the index of the line and
\* the read of its position; the pass ends after the last item or at a
\* break.
CLine ==
    /\ rthr.pc = "line"
    /\ rthr' = IF \/ rthr.line_no >= rthr.items
                  \/ console_idx(cons.rbam, rthr.line_no) = cons.rbam.dim
               THEN InitRenderer
               ELSE [rthr EXCEPT
                       !.pc = "text",
                       !.idx = console_idx(cons.rbam, rthr.line_no),
                       !.pos = cons.linelist[
                                  console_idx(cons.rbam, rthr.line_no)].pos]
    /\ UNCHANGED <<ci, g_data, wthr, hist, cb, call, buf, cons, prod, rb>>

\* console_ui_window: ImGui::TextWrapped("%s", buf + pos) and line_no++.
CText ==
    /\ rthr.pc = "text"
    /\ rthr' = [rthr EXCEPT !.pc = "line", !.line_no = @ + 1,
                            !.text = cons_str(cons, rthr.pos)]
    /\ UNCHANGED <<ci, g_data, wthr, hist, cb, call, buf, cons, prod, rb>>

Renderer == CBegin \/ CLine \/ CText

\* The call of pd->cons.out from the input box, after the pass.
RenderInput == rthr.pc = "idle" /\ Producer(1)

NextRender ==
    \/ Renderer
    \/ RenderInput
    \/ \E p \in Producers \ {1} : Producer(p)

SpecRender == InitRender /\ [][NextRender]_vars

\* The descriptors between the read index and the write index of the ring.
LiveIdx(c) ==
    IF c.rbam.rd <= c.rbam.wr THEN c.rbam.rd..(c.rbam.wr - 1)
    ELSE (c.rbam.rd..(c.rbam.dim - 1)) \cup (0..(c.rbam.wr - 1))

\* The ring cursors, the descriptors and the bytes of the store.
LogData(c) == <<c.rbam, c.linelist, c.buf>>

\* The render thread is about to draw a descriptor that is live and still
\* at the position read.
DrawsLiveLine ==
    rthr.pc = "text" =>
        /\ rthr.idx \in LiveIdx(cons)
        /\ cons.linelist[rthr.idx].pos = rthr.pos

\* C22: the read pass of the render thread excludes out_cons as a held
\* mutex would: no step taken while the pass is under way changes the ring
\* cursors, a descriptor or a byte of the store, and the descriptor whose
\* bytes are about to be drawn is live and still at the position read.
C22_ReadPassLocked ==
    /\ [][(rthr.pc # "idle" /\ rthr'.pc # "idle")
             => LogData(cons') = LogData(cons)]_vars
    /\ []DrawsLiveLine

\* ------------------------------------------------------------------------
\* The line splitting rule of the specification, applied to the input
\* proper: the bytes text[0 .. len - 1].
\* ------------------------------------------------------------------------

\* The first segment of the input in: n is its length and stop says that
\* an embedded terminator ended it, and the input with it.  The segment
\* ends at the first LF, CR LF or lone CR among the first CONS_MAX_LINE
\* bytes (included), before an embedded terminator among them, after
\* CONS_MAX_LINE bytes or with the input.
RefSeg(in) ==
    LET ends == {k \in 1..Min(CONS_MAX_LINE, Len(in)) :
                    in[k] \in {LF, CR, XYZ_NTERM}}
    IN  IF ends = {}
        THEN [n |-> Min(CONS_MAX_LINE, Len(in)), stop |-> FALSE]
        ELSE CHOOSE r \in [n : 0..(CONS_MAX_LINE + 1), stop : BOOLEAN] :
               \E k \in ends :
                  /\ \A j \in ends : k <= j
                  /\ r.stop = (in[k] = XYZ_NTERM)
                  /\ r.n = IF in[k] = XYZ_NTERM THEN k - 1
                           ELSE IF /\ in[k] = CR
                                   /\ k < Len(in)
                                   /\ in[k + 1] = LF
                           THEN k + 1
                           ELSE k

\* The segments of the input in, in order: while input remains, one more
\* segment.
RECURSIVE RefSplit(_)
RefSplit(in) ==
    IF in = <<>> THEN <<>>
    ELSE CHOOSE r \in
           {IF sg.stop THEN <<SubSeq(in, 1, sg.n)>>
            ELSE <<SubSeq(in, 1, sg.n)>>
                    \o RefSplit(SubSeq(in, sg.n + 1, Len(in))) :
               sg \in {RefSeg(in)}} : TRUE

\* C23: for every input of at most 4 * CONS_MAX_LINE bytes the segments a
\* call stores are the segments of the rule, in order: each ends at LF, at
\* CR LF, at a lone CR, at an embedded terminator or after CONS_MAX_LINE
\* bytes, a token of k * CONS_MAX_LINE bytes gives k segments of
\* CONS_MAX_LINE bytes, and the stored length of the last line is its
\* segment length plus 1.
C23_SplitMatchesRule ==
    (/\ call.op = "out_cons"
     /\ call.pre.locked = 0
     /\ call.arg[2] <= CONS_MAX_LINE * 4) =>
        /\ call.pre.lines = RefSplit(SubSeq(call.arg[1], 1, call.arg[2]))
        /\ \A i \in 0..(CONS_LINELIST_DIM - 1) :
              xyz_rbam_next(cons.rbam, i) = cons.rbam.wr =>
                 cons.linelist[i].len
                    = Len(call.pre.lines[Len(call.pre.lines)]) + 1

\* ------------------------------------------------------------------------
\* SpecLog: calls of out_cons made one after the other on one console
\* log, the mutex free at each call, for every size of the byte store from
\* CONS_MAX_LINE + 2 to CONS_BUF_DIM and every number of descriptors from
\* 2 to CONS_LINELIST_DIM.  hist.stored is the sequence of all
\* segments ever stored, in order.  call.pre holds the segments and the
\* descriptors the last call stored.
\* ------------------------------------------------------------------------

\* A second ordinary byte, to tell lines apart.
Other == 98

Token(n, byte) == [i \in 1..n |-> byte]

\* The texts passed, each with len = strlen(text) but the last, which has
\* a terminator after a line end: two short lines, an unterminated byte, a
\* full line, a line whose CR LF crosses CONS_MAX_LINE, a lone CR, two and
\* more than four full lines without line end.
LogInputs ==
    {<<t \o <<XYZ_NTERM>>, Len(t)>> :
        t \in {<<Ordinary, LF>>, <<Other, LF>>, <<Other>>,
               Token(CONS_MAX_LINE, Other),
               Token(CONS_MAX_LINE - 1, Ordinary) \o <<CR, LF>>,
               <<CR>>,
               Token(2 * CONS_MAX_LINE, Ordinary),
               Token(4 * CONS_MAX_LINE + 1, Other)}}
    \cup {<<<<Ordinary, LF, XYZ_NTERM, Other, XYZ_NTERM>>, 4>>}

\* The console log of a build with a byte store of bufdim bytes and dim
\* line descriptors.
ConsOf(bufdim, dim) ==
    [buf |-> [i \in 0..(bufdim - 1) |-> Uninit],
     linelist |-> [i \in 0..(dim - 1) |-> [pos |-> 0, len |-> 0]],
     rbam |-> xyz_rbam_init(dim),
     mutex |-> 0,
     lockfailures |-> 0,
     bufdim |-> bufdim]

InitLog ==
    /\ \E bufdim \in (CONS_MAX_LINE + 2)..CONS_BUF_DIM :
       \E dim \in 2..CONS_LINELIST_DIM :
          cons = ConsOf(bufdim, dim)
    /\ hist = [stored |-> <<>>, calls |-> 0]
    /\ call = NoCall
    /\ prod = NoProd
    /\ rb = NoRbam
    /\ cb = NoCbuf
    /\ ci = NoCidx
    /\ g_data = NoData
    /\ wthr = NoThread
    /\ rthr = NoThread
    /\ buf = NoData

LogAppend ==
    /\ hist.calls < MaxAppends
    /\ \E in \in LogInputs :
         \E r \in {out_cons(cons, in[1], in[2])} :
            /\ cons' = r.cons
            /\ hist' = [stored |-> hist.stored \o r.lines,
                        calls |-> hist.calls + 1]
            /\ call' = [op |-> "out_cons", arg |-> in, ret |-> r.len,
                        pre |-> [lines |-> r.lines, descs |-> r.descs]]
    /\ UNCHANGED <<ci, g_data, wthr, rthr, cb, buf, prod, rb>>

NextLog == LogAppend

SpecLog == InitLog /\ [][NextLog]_vars

\* The byte range of the descriptor d.
Range(d) == d.pos..(d.pos + d.len - 1)

\* C24: the byte ranges [pos, pos + len) of any two distinct live
\* descriptors are disjoint.
C24_LiveRangesDisjoint ==
    \A i, j \in LiveIdx(cons) :
       i # j => Range(cons.linelist[i]) \cap Range(cons.linelist[j]) = {}

\* C24 witness: two lines are live, the newer one below the older one in
\* the store after a restart at position 0.
C24_Witness ==
    /\ cons.rbam.used >= 2
    /\ \E i \in LiveIdx(cons) :
          /\ i # cons.rbam.rd
          /\ cons.linelist[i].pos < cons.linelist[cons.rbam.rd].pos

\* The lines the window draws in one pass over the log c, in order.
console_lines(c) ==
    [k \in 1..c.rbam.used |->
        cons_str(c, c.linelist[console_idx(c.rbam, k - 1)].pos)]

\* C25: the descriptors from the read index up to the write index give
\* the last lines of all the segments ever stored, in the order stored,
\* and the bytes of each up to its terminator are the segment.
C25_FifoWindow ==
    /\ cons.rbam.used = Cardinality(LiveIdx(cons))
    /\ cons.rbam.used <= Len(hist.stored)
    /\ console_lines(cons)
          = SubSeq(hist.stored, Len(hist.stored) - cons.rbam.used + 1,
                   Len(hist.stored))

\* C25 witness: two different lines are live and older lines were evicted.
C25_Witness ==
    /\ cons.rbam.used >= 2
    /\ Len(hist.stored) > cons.rbam.used
    /\ console_lines(cons)[1] # console_lines(cons)[2]

RECURSIVE SumLen(_, _)
SumLen(c, S) ==
    IF S = {} THEN 0
    ELSE LET i == CHOOSE x \in S : TRUE
         IN  c.linelist[i].len + SumLen(c, S \ {i})

\* C26: the number of live lines is at most the number of descriptors and
\* the stored lengths of the live lines add up to at most the size of the
\* byte store.
C26_CapacityBounds ==
    /\ Cardinality(LiveIdx(cons)) <= cons.rbam.dim
    /\ SumLen(cons, LiveIdx(cons)) <= cons.bufdim

\* C26 witness: lines were evicted and the live lines fill the store.
C26_Witness ==
    /\ Len(hist.stored) > cons.rbam.used
    /\ SumLen(cons, LiveIdx(cons)) = cons.bufdim

\* C27: every live descriptor and every line a call stored lies within
\* the store, pos + len <= bufdim, so that the copy of the segment and the
\* terminator write offsets of [0, bufdim) only.
C27_NoSplitAcrossWrap ==
    /\ \A i \in LiveIdx(cons) :
          cons.linelist[i].pos + cons.linelist[i].len <= cons.bufdim
    /\ call.op = "out_cons" =>
          \A k \in 1..Len(call.pre.descs) :
             /\ call.pre.descs[k].pos >= 0
             /\ call.pre.descs[k].pos + call.pre.descs[k].len <= cons.bufdim
             /\ call.pre.descs[k].len = Len(call.pre.lines[k]) + 1

\* C27 witness: the last call stored a line at position 0 after a line
\* further up, because it did not fit in the rest of the store.
C27_Witness ==
    /\ call.op = "out_cons"
    /\ \E k \in 2..Len(call.pre.descs) :
          /\ call.pre.descs[k].pos = 0
          /\ call.pre.descs[k - 1].pos + call.pre.descs[k - 1].len
                + call.pre.descs[k].len > cons.bufdim
          /\ call.pre.descs[k - 1].pos + call.pre.descs[k - 1].len
                < cons.bufdim

\* C28: a call with len = 0, or whose first byte is the terminator,
\* returns 0 at once: it makes no try-lock, stores no line, and leaves
\* lockfailures, the descriptors, the cursors and the byte store as they
\* were.
C28_EmptyReturnsAtOnce ==
    (/\ call.op = "out_cons"
     /\ \/ call.arg[2] = 0
        \/ Byte(call.arg[1], 0) = XYZ_NTERM) =>
        /\ call.ret = 0
        /\ call.pre.locked # 0
        /\ call.pre.lines = <<>>
        /\ call.pre.copied = 0
        /\ cons = InitCons

\* C28 witness: a call with len > 0 whose first byte is the terminator
\* has returned.
C28_Witness ==
    /\ call.op = "out_cons"
    /\ call.arg[2] > 0
    /\ Byte(call.arg[1], 0) = XYZ_NTERM
    /\ Len(call.arg[1]) > 2
    /\ call.ret = 0

\* The index of the first terminator of a text.
FirstNterm(text) ==
    CHOOSE i \in 0..(Len(text) - 1) :
       /\ Byte(text, i) = XYZ_NTERM
       /\ \A j \in 0..(i - 1) : Byte(text, j) # XYZ_NTERM

\* The segments of lines one after the other.
RECURSIVE Flatten(_)
Flatten(lines) ==
    IF lines = <<>> THEN <<>> ELSE Head(lines) \o Flatten(Tail(lines))

\* C29: when the text has its first terminator at an index i below
\* min(len, 4 * CONS_MAX_LINE), the call stores the bytes before index i
\* and nothing from index i on, and returns i.
C29_TruncatesAtTerminator ==
    (/\ call.op = "out_cons"
     /\ FirstNterm(call.arg[1]) < Min(call.arg[2], CONS_MAX_LINE * 4)) =>
        /\ call.ret = FirstNterm(call.arg[1])
        /\ call.pre.copied = FirstNterm(call.arg[1])
        /\ Flatten(call.pre.lines)
              = SubSeq(call.arg[1], 1, FirstNterm(call.arg[1]))

\* C29 witness: a call whose text has a terminator after a line end and
\* more bytes behind it, with len beyond them, has returned.
C29_Witness ==
    /\ call.op = "out_cons"
    /\ FirstNterm(call.arg[1]) = 2
    /\ call.arg[2] = 3
    /\ Byte(call.arg[1], 1) = LF
    /\ call.ret = 2

\* C30: every line stored has a segment of at most CONS_MAX_LINE bytes,
\* that is a stored length of at most CONS_MAX_LINE + 1, also when a CR at
\* segment position CONS_MAX_LINE - 1 is followed by LF.
C30_LineBound ==
    /\ \A i \in LiveIdx(cons) : cons.linelist[i].len <= CONS_MAX_LINE + 1
    /\ call.op = "out_cons" =>
          \A k \in 1..Len(call.pre.lines) :
             /\ Len(call.pre.lines[k]) <= CONS_MAX_LINE
             /\ call.pre.descs[k].len <= CONS_MAX_LINE + 1

\* The thread p is in the section of out_cons between a successful
\* try-lock and the unlock.
InSection(p) ==
    \/ prod[p].pc = "store"
    \/ prod[p].pc = "end" /\ prod[p].locked = 0

\* C31: at most one thread at a time is in the line storing section of
\* out_cons, and the mutex is held by exactly the thread in it: a thread
\* unlocks once, on the way out of a call in which its try-lock succeeded,
\* and never unlocks on the early return or after two failed try-locks.
C31_ProducersExcluded ==
    /\ [](\A p, q \in Producers : (InSection(p) /\ InSection(q)) => p = q)
    /\ [](\A p \in Producers : InSection(p) <=> cons.mutex = p)
    /\ [][\A p \in Producers :
             (cons.mutex = p /\ cons'.mutex # p) =>
                /\ prod[p].pc = "end"
                /\ prod[p].locked = 0
                /\ prod'[p].pc = "idle"
                /\ cons'.mutex = 0]_vars

\* C31 witness: a thread is storing its lines while another thread, which
\* found the mutex taken, is about to try again.
C31_Witness ==
    \E p, q \in Producers :
       /\ prod[p].pc = "store"
       /\ prod[q].pc = "try2"
       /\ cons.mutex = p

\* ------------------------------------------------------------------------
\* SpecContend: SpecLock with one thread more, so that two threads can
\* find the mutex held by a third at the same time.
\* ------------------------------------------------------------------------

Contenders == 1..(NProd + 1)

InitContend ==
    /\ cons = InitCons
    /\ prod = [p \in Contenders |-> InitProducer]
    /\ rb = NoRbam
    /\ hist = [calls |-> 0]
    /\ call = NoCall
    /\ cb = NoCbuf
    /\ ci = NoCidx
    /\ g_data = NoData
    /\ wthr = NoThread
    /\ rthr = NoThread
    /\ buf = NoData

NextContend == \E p \in Contenders : Producer(p)

SpecContend == InitContend /\ [][NextContend]_vars

\* C32: lockfailures counts every failed try-lock: the increment that
\* follows a failed try-lock leaves lockfailures one above what it was, so
\* no increment is lost when several threads fail at the same time, and
\* nothing else changes lockfailures.
C32_LockFailuresExact ==
    [][\A p \in Contenders :
          prod'[p] # prod[p] =>
             cons'.lockfailures =
                IF prod[p].pc \in {"inc1s", "inc2s"}
                THEN cons.lockfailures + 1
                ELSE cons.lockfailures]_vars

\* C33: after every sequence of cbuf_commit, cbuf_consume and cbuf_drain
\* with any arguments the write and the read offset are in [0, size), the
\* free count is in [0, size], and the write offset is the read offset plus
\* the used bytes modulo the size; cbuf_drain returns the used bytes at the
\* call and leaves the buffer empty with the read offset on the write offset.
C33_CursorInvariants ==
    /\ cb.wr \in 0..(cb.max - 1)
    /\ cb.rd \in 0..(cb.max - 1)
    /\ cb.fre \in 0..cb.max
    /\ cb.wr = (cb.rd + (cb.max - cb.fre)) % cb.max
    /\ call.op = "cbuf_drain" =>
          /\ call.ret = call.pre.max - call.pre.fre
          /\ cb.fre = cb.max
          /\ cb.rd = cb.wr
          /\ cb.wr = call.pre.wr

\* A drain of a buffer holding bytes whose read offset then wraps.
C33_Witness ==
    /\ call.op = "cbuf_drain"
    /\ call.ret > 0
    /\ cb.rd < call.pre.rd

\* C34: on a buffer created with an alignment of 2, 4 or 8 the free count,
\* the write offset and the read offset are multiples of the alignment after
\* every sequence of cbuf_commit, cbuf_consume and cbuf_drain with any byte
\* counts, and so is every value cbuf_commit and cbuf_consume return; every
\* other alignment argument makes the buffer cbuf_create makes for 0, on
\* which the byte count is only clamped.
C34_AlignmentKept ==
    /\ \A minsize \in 0..MaxMinSize, align \in AlignArgs \ {2, 4, 8} :
          cbuf_create(minsize, align) = cbuf_create(minsize, 0)
    /\ cb.align \in {0, 2, 4, 8}
    /\ cb.align # 0 =>
          /\ cb.fre % cb.align = 0
          /\ cb.wr % cb.align = 0
          /\ cb.rd % cb.align = 0
          /\ cb.max % cb.align = 0
          /\ call.op \in {"cbuf_commit", "cbuf_consume"} =>
                call.ret % cb.align = 0
    /\ cb.align = 0 =>
          /\ call.op = "cbuf_commit" =>
                call.ret = Min(call.arg, call.pre.fre)
          /\ call.op = "cbuf_consume" =>
                call.ret = Min(call.arg, call.pre.max - call.pre.fre)

\* A commit whose byte count was rounded up to the alignment, followed by
\* nothing else: the offsets stand on a non-zero multiple of 4.
C34_Witness ==
    /\ call.op = "cbuf_commit"
    /\ cb.align = 4
    /\ call.arg % 4 # 0
    /\ call.ret > call.arg
    /\ cb.rd # 0

\* C35: for every minsize of the word the buffer size cbuf_create computes
\* is below half the word range, so the length bufsize * 2 handed to the
\* mapping calls, computed in the word, is exactly twice the buffer size.
C35_DoubledSizeFits ==
    call.op = "cbuf_bufsize" =>
        /\ 2 * call.ret < Word
        /\ (call.ret * 2) % Word = call.ret + call.ret

\* A minsize whose rounded size has the most significant bit set.
C35_Witness ==
    /\ call.op = "cbuf_bufsize"
    /\ call.arg >= Word \div 2
    /\ call.arg % call.pre = 0
    /\ call.ret = call.arg \div 2

\* No call of cidx_commit, cidx_consume or cidx_drain is between its first
\* and its last store, and the reader has done the bookkeeping of its last
\* call.
DrainQuiescent ==
    /\ wthr.pc \notin {"w_commit_wr", "w_commit_fre"}
    /\ rthr.pc \in {"r_isempty", "r_empty", "done"}

\* C36: with cidx_drain running in the reader while the writer commits,
\* every element the reader consumes has been committed and none is
\* consumed twice, and whenever both threads are quiescent the elements
\* drained and consumed (rcnt) plus those still used are the elements
\* committed and wr = (rd + used) mod capacity.
C36_DrainKeepsCount ==
    /\ \A i \in 1..Len(hist.consumed) :
          /\ \E k \in 1..Len(hist.committed) :
                hist.committed[k] = hist.consumed[i]
          /\ \A j \in 1..Len(hist.consumed) :
                hist.consumed[j] = hist.consumed[i] => j = i
    /\ DrainQuiescent =>
          /\ Len(hist.committed) = rthr.rcnt + cidx_used(ci)
          /\ Len(hist.consumed) <= rthr.rcnt
          /\ ci.wr = (ci.rd + cidx_used(ci)) % ci.max

\* Both threads quiescent after a drain that took elements, with elements
\* consumed one by one as well and a commit made since.
C36_Witness ==
    /\ DrainQuiescent
    /\ rthr.drained > 0
    /\ Len(hist.consumed) > 0
    /\ rthr.rcnt > Len(hist.consumed)
    /\ cidx_used(ci) > 0
    /\ ci.rd < ci.wr

\* ------------------------------------------------------------------------
\* SpecRbam: the xyz_rbam API called from one thread on an initialised
\* ring, in every order.  call.ret is the u32 the function returns.
\* ------------------------------------------------------------------------

XYZ_TRUE == 1
XYZ_FALSE == 0

\* A drain that resets the statistics and leaves the read index.
xyz_rbam_drain_mut(rbam) == [ret |-> rbam.used, rbam |-> [rbam EXCEPT !.used = 0, !.free = rbam.dim - 1]]

\* xyz_rbam_drain as one uninterrupted call.
xyz_rbam_drain(rbam) ==
    [ret |-> IF rbam.wr >= rbam.rd THEN rbam.wr - rbam.rd
             ELSE (rbam.dim - rbam.rd) + rbam.wr,
     rbam |-> [rbam EXCEPT !.rd = rbam.wr, !.used = 0,
                           !.free = rbam.dim - 1]]

InitRbam ==
    /\ \E dim \in 2..(MaxCap + 1) : rb = xyz_rbam_init(dim)
    /\ ci = NoCidx
    /\ g_data = NoData
    /\ wthr = NoThread
    /\ rthr = NoThread
    /\ hist = NoHist
    /\ cb = NoCbuf
    /\ call = NoCall
    /\ buf = NoData
    /\ cons = NoCons
    /\ prod = NoProd

RbWrite ==
    /\ rb' = xyz_rbam_write(rb)
    /\ call' = [op |-> "xyz_rbam_write", arg |-> 0, pre |-> rb,
                ret |-> IF xyz_rbam_is_full(rb) THEN XYZ_FALSE ELSE XYZ_TRUE]
    /\ UNCHANGED <<ci, g_data, wthr, rthr, hist, cb, buf, cons, prod>>

RbRead ==
    /\ rb' = xyz_rbam_read(rb)
    /\ call' = [op |-> "xyz_rbam_read", arg |-> 0, pre |-> rb,
                ret |-> IF xyz_rbam_is_empty(rb) THEN XYZ_FALSE ELSE XYZ_TRUE]
    /\ UNCHANGED <<ci, g_data, wthr, rthr, hist, cb, buf, cons, prod>>

RbDrain ==
    /\ \E r \in {xyz_rbam_drain(rb)} :
          /\ rb' = r.rbam
          /\ call' = [op |-> "xyz_rbam_drain", arg |-> 0, pre |-> rb,
                      ret |-> r.ret]
    /\ UNCHANGED <<ci, g_data, wthr, rthr, hist, cb, buf, cons, prod>>

NextRbam == RbWrite \/ RbRead \/ RbDrain

SpecRbam == InitRbam /\ [][NextRbam]_vars

\* C37: after xyz_rbam_init(dim >= 2) and every sequence of xyz_rbam_write,
\* xyz_rbam_read and xyz_rbam_drain made by one thread, next is (wr + 1) mod
\* dim, used is (wr - rd) mod dim and at most dim - 1, free is dim - 1 -
\* used, the ring is full exactly when used is dim - 1, and a write on a
\* full ring or a read on an empty ring is refused and moves neither rd nor
\* wr.
C37_SentinelInvariants ==
    /\ rb.dim >= 2
    /\ rb.next = (rb.wr + 1) % rb.dim
    /\ rb.used = (rb.wr + rb.dim - rb.rd) % rb.dim
    /\ rb.free = rb.dim - 1 - rb.used
    /\ rb.used <= rb.dim - 1
    /\ xyz_rbam_is_full(rb) <=> rb.used = rb.dim - 1
    /\ xyz_rbam_is_empty(rb) <=> rb.used = 0
    /\ (call.op = "xyz_rbam_write" /\ call.pre.used = call.pre.dim - 1) =>
          /\ call.ret = XYZ_FALSE
          /\ rb.rd = call.pre.rd
          /\ rb.wr = call.pre.wr
    /\ (call.op = "xyz_rbam_read" /\ call.pre.used = 0) =>
          /\ call.ret = XYZ_FALSE
          /\ rb.rd = call.pre.rd
          /\ rb.wr = call.pre.wr

\* A write refused on a full ring whose write index has rolled over.
C37_Witness ==
    /\ call.op = "xyz_rbam_write"
    /\ call.ret = XYZ_FALSE
    /\ rb.used = rb.dim - 1
    /\ rb.wr < rb.rd

\* ------------------------------------------------------------------------
\* SpecRbamThreads: one thread calling xyz_rbam_write and one calling
\* xyz_rbam_read on the same ring with no lock, MaxCalls calls each.  Every
\* step holds at most one access to a field the other thread can touch.
\* wthr.n and rthr.n are the locals rd and wr, wthr.tmp and rthr.tmp the
\* value of used the thread has just computed.
\* ------------------------------------------------------------------------

InitRbamThread == [pc |-> "idle", cnt |-> 0, n |-> 0, tmp |-> 0]

InitRbamThreads ==
    /\ \E dim \in 2..(MaxCap + 1) : rb = xyz_rbam_init(dim)
    /\ wthr = InitRbamThread
    /\ rthr = InitRbamThread
    /\ ci = NoCidx
    /\ g_data = NoData
    /\ hist = NoHist
    /\ cb = NoCbuf
    /\ call = NoCall
    /\ buf = NoData
    /\ cons = NoCons
    /\ prod = NoProd

\* used as both functions compute it from a write and a read index.
xyz_rbam_used(rbam, wr, rd) ==
    IF wr >= rd THEN wr - rd ELSE (rbam.dim - rd) + wr

\* xyz_rbam_write: if ( xyz_rbam_is_full(rbam) == XYZ_TRUE ) return
RwFull ==
    /\ wthr.pc = "idle"
    /\ wthr.cnt < MaxCalls
    /\ wthr' = IF xyz_rbam_is_full(rb)
               THEN [wthr EXCEPT !.cnt = wthr.cnt + 1]
               ELSE [wthr EXCEPT !.pc = "rw_wr", !.cnt = wthr.cnt + 1]
    /\ UNCHANGED <<rb, rthr, ci, g_data, hist, cb, call, buf, cons, prod>>

\* xyz_rbam_write: rbam->wr = rbam->next; rbam->next = ...
RwWr ==
    /\ wthr.pc = "rw_wr"
    /\ rb' = [rb EXCEPT !.wr = rb.next, !.next = xyz_rbam_next(rb, rb.next)]
    /\ wthr' = [wthr EXCEPT !.pc = "rw_rd"]
    /\ UNCHANGED <<rthr, ci, g_data, hist, cb, call, buf, cons, prod>>

\* xyz_rbam_write: u32 rd = rbam->rd;
RwRd ==
    /\ wthr.pc = "rw_rd"
    /\ wthr' = [wthr EXCEPT !.pc = "rw_used", !.n = rb.rd]
    /\ UNCHANGED <<rb, rthr, ci, g_data, hist, cb, call, buf, cons, prod>>

\* xyz_rbam_write: rbam->used = ...
RwUsed ==
    /\ wthr.pc = "rw_used"
    /\ \E used \in {xyz_rbam_used(rb, rb.wr, wthr.n)} :
          /\ rb' = [rb EXCEPT !.used = used]
          /\ wthr' = [wthr EXCEPT !.pc = "rw_free", !.tmp = used]
    /\ UNCHANGED <<rthr, ci, g_data, hist, cb, call, buf, cons, prod>>

\* xyz_rbam_write: rbam->free = rbam->dim - rbam->used - 1, with used
\* taken from the value just computed or read again from the ring.
RwFree ==
    /\ wthr.pc = "rw_free"
    /\ \E used \in {wthr.tmp, rb.used} :
          rb' = [rb EXCEPT !.free = rb.dim - used - 1]
    /\ wthr' = [wthr EXCEPT !.pc = "idle"]
    /\ UNCHANGED <<rthr, ci, g_data, hist, cb, call, buf, cons, prod>>

\* xyz_rbam_read: if ( xyz_rbam_is_empty(rbam) == XYZ_TRUE ) return
RrEmpty ==
    /\ rthr.pc = "idle"
    /\ rthr.cnt < MaxCalls
    /\ rthr' = IF xyz_rbam_is_empty(rb)
               THEN [rthr EXCEPT !.cnt = rthr.cnt + 1]
               ELSE [rthr EXCEPT !.pc = "rr_rd", !.cnt = rthr.cnt + 1]
    /\ UNCHANGED <<rb, wthr, ci, g_data, hist, cb, call, buf, cons, prod>>

\* xyz_rbam_read: rbam->rd = xyz_rbam_next(rbam, rbam->rd);
RrRd ==
    /\ rthr.pc = "rr_rd"
    /\ rb' = [rb EXCEPT !.rd = xyz_rbam_next(rb, rb.rd)]
    /\ rthr' = [rthr EXCEPT !.pc = "rr_wr"]
    /\ UNCHANGED <<wthr, ci, g_data, hist, cb, call, buf, cons, prod>>

\* xyz_rbam_read: u32 wr = rbam->wr;
RrWr ==
    /\ rthr.pc = "rr_wr"
    /\ rthr' = [rthr EXCEPT !.pc = "rr_used", !.n = rb.wr]
    /\ UNCHANGED <<rb, wthr, ci, g_data, hist, cb, call, buf, cons, prod>>

\* xyz_rbam_read: rbam->used = ...
RrUsed ==
    /\ rthr.pc = "rr_used"
    /\ \E used \in {xyz_rbam_used(rb, rthr.n, rb.rd)} :
          /\ rb' = [rb EXCEPT !.used = used]
          /\ rthr' = [rthr EXCEPT !.pc = "rr_free", !.tmp = used]
    /\ UNCHANGED <<wthr, ci, g_data, hist, cb, call, buf, cons, prod>>

\* xyz_rbam_read: rbam->free = rbam->dim - rbam->used - 1
RrFree ==
    /\ rthr.pc = "rr_free"
    /\ \E used \in {rthr.tmp, rb.used} :
          rb' = [rb EXCEPT !.free = rb.dim - used - 1]
    /\ rthr' = [rthr EXCEPT !.pc = "idle"]
    /\ UNCHANGED <<wthr, ci, g_data, hist, cb, call, buf, cons, prod>>

NextRbamThreads ==
    \/ RwFull \/ RwWr \/ RwRd \/ RwUsed \/ RwFree
    \/ RrEmpty \/ RrRd \/ RrWr \/ RrUsed \/ RrFree

SpecRbamThreads == InitRbamThreads /\ [][NextRbamThreads]_vars

\* C38: with one thread writing and one thread reading the ring without a
\* lock, whenever neither thread is inside a call the statistics agree with
\* the indexes: used is (wr - rd) mod dim and free is dim - 1 - used.
C38_StatsConsistent ==
    (wthr.pc = "idle" /\ rthr.pc = "idle") =>
        /\ rb.used = (rb.wr + rb.dim - rb.rd) % rb.dim
        /\ rb.free = rb.dim - 1 - rb.used

\* ------------------------------------------------------------------------
\* SpecPair: one thread driving a cidx of capacity c and an xyz_rbam of
\* dim c + 1 with the same sequence of operations: commit with write,
\* consume with read, drain with drain.  call.ret and call.pre hold the
\* pair <<xyz_rbam, cidx>> of the values returned and of the states before.
\* ------------------------------------------------------------------------

InitPair ==
    /\ \E c \in 2..MaxCap :
          /\ ci = cidx_init(NoCidx, c).ci
          /\ rb = xyz_rbam_init(c + 1)
    /\ g_data = NoData
    /\ wthr = NoThread
    /\ rthr = NoThread
    /\ hist = NoHist
    /\ cb = NoCbuf
    /\ call = NoCall
    /\ buf = NoData
    /\ cons = NoCons
    /\ prod = NoProd

PairWrite ==
    /\ \E r \in {cidx_commit(ci)} :
          /\ ci' = r.ci
          /\ rb' = xyz_rbam_write(rb)
          /\ call' = [op |-> "write", arg |-> 0, pre |-> <<rb, ci>>,
                      ret |-> <<IF xyz_rbam_is_full(rb) THEN XYZ_FALSE
                                ELSE XYZ_TRUE, r.ret>>]
    /\ UNCHANGED <<g_data, wthr, rthr, hist, cb, buf, cons, prod>>

PairRead ==
    /\ \E r \in {cidx_consume(ci)} :
          /\ ci' = r.ci
          /\ rb' = xyz_rbam_read(rb)
          /\ call' = [op |-> "read", arg |-> 0, pre |-> <<rb, ci>>,
                      ret |-> <<IF xyz_rbam_is_empty(rb) THEN XYZ_FALSE
                                ELSE XYZ_TRUE, r.ret>>]
    /\ UNCHANGED <<g_data, wthr, rthr, hist, cb, buf, cons, prod>>

PairDrain ==
    /\ \E r \in {cidx_drain(ci)}, d \in {xyz_rbam_drain(rb)} :
          /\ ci' = r.ci
          /\ rb' = d.rbam
          /\ call' = [op |-> "drain", arg |-> 0, pre |-> <<rb, ci>>,
                      ret |-> <<d.ret, r.ret>>]
    /\ UNCHANGED <<g_data, wthr, rthr, hist, cb, buf, cons, prod>>

NextPair == PairWrite \/ PairRead \/ PairDrain

SpecPair == InitPair /\ [][NextPair]_vars

\* C39: driven by the same sequence of operations from one thread, the
\* xyz_rbam of dim c + 1 and the cidx of capacity c report the same full and
\* empty status and the same used and free counts, accept or refuse each
\* operation alike and return the same drain count.
C39_VariantsAgree ==
    /\ rb.dim = ci.max + 1
    /\ xyz_rbam_is_full(rb) <=> cidx_isfull(ci)
    /\ xyz_rbam_is_empty(rb) <=> cidx_isempty(ci)
    /\ rb.used = cidx_used(ci)
    /\ rb.free = cidx_free(ci)
    /\ call.op \in {"write", "read"} =>
          ((call.ret[1] = XYZ_TRUE) <=> (call.ret[2] = TRUE))
    /\ call.op = "drain" => call.ret[1] = call.ret[2]

\* Both variants were full, the ring with its write index rolled over, and
\* a drain has returned the whole capacity.
C39_Witness ==
    /\ call.op = "drain"
    /\ call.ret[1] = ci.max
    /\ call.pre[1].wr < call.pre[1].rd
    /\ call.pre[2].fre = 0

\* C40: out_cons never stores an empty line: every line a call stores
\* holds at least one byte of the text, and every live descriptor has a
\* stored length, which counts the terminator, of at least 2.
C40_NoEmptyLine ==
    call.op = "out_cons" =>
        /\ \A i \in 1..Len(call.pre.lines) : Len(call.pre.lines[i]) >= 1
        /\ \A i \in LiveIdx(cons) : cons.linelist[i].len >= 2

====
